---- MODULE Spec2Model ----
(***************************************************************************)
(* MediDiagnose inference subsystem: the knowledge base, the forward and   *)
(* backward chaining strategies and the DiagnosisService orchestrator.     *)
(*                                                                         *)
(* Confidence values are Python floats (IEEE-754 binary64).  They are      *)
(* modelled bit-exactly: a float is a sign-less record with an exponent    *)
(* and a 53-bit significand kept in five base-2^13 limbs (least            *)
(* significant limb first), and "/" , "*" and round(x, 4) round to nearest *)
(* with ties to even exactly as CPython does.                              *)
(***************************************************************************)
EXTENDS Integers, Sequences, FiniteSets, TLC

(***************************************************************************)
(* Bounds of the model.                                                    *)
(***************************************************************************)
NumSymptoms == 3
MaxRules == 2
MaxLen == 2
MaxCalls == 2

(***************************************************************************)
(* State.                                                                  *)
(***************************************************************************)
VARIABLES
    symptom_rows, \* the SymptomModel table: the name of each row and whether
                  \* the row is still stored
    epochs,       \* the contents the SymptomModel table has had, each with
                  \* the time from which it held
    cache,        \* the entry of django.core.cache under "kb:all_symptoms"
    clock,        \* time.time(), in seconds
    readers,      \* the get_all_symptoms calls, one per thread
    rules,      \* the DiagnosticRuleModel table, in evaluation order
    strategy,   \* DiagnosisService._strategy
    cases,      \* the PatientCaseModel table; a case's id is its position
    traces,     \* the InferenceTraceModel table
    call,       \* the diagnose call in flight, or the last one finished
    other,      \* the diagnose call of a second thread
    nCalls,     \* diagnose calls started so far
    nReturned,  \* diagnose calls that returned a result
    probe       \* the direct call of execute_inference or of get_explanation
                \* that has just returned

\* the symptom table and the cached access to it
kbvars == <<symptom_rows, epochs, cache, clock, readers>>

vars == <<kbvars, other, rules, strategy, cases, traces, call, nCalls, nReturned, probe>>

(***************************************************************************)
(* IEEE-754 binary64 arithmetic on positive values.                        *)
(***************************************************************************)
LimbBits == 13
LimbBase == 8192
MantLimbs == 5

RECURSIVE Pow2(_)
Pow2(n) == IF n = 0 THEN 1 ELSE 2 * Pow2(n - 1)

Max(a, b) == IF a >= b THEN a ELSE b

\* the limb at position i of L, 0 beyond its length
LimbAt(L, i) == IF i >= 1 /\ i <= Len(L) THEN L[i] ELSE 0

\* TRUE iff limbs 1..k of L are all zero
RECURSIVE LowZero(_, _)
LowZero(L, k) == IF k <= 0 THEN TRUE ELSE LimbAt(L, k) = 0 /\ LowZero(L, k - 1)

\* carry propagation over a sequence of column sums, least significant first
RECURSIVE Carry(_, _, _)
Carry(S, i, c) ==
    IF i > Len(S)
    THEN IF c = 0 THEN << >> ELSE <<c>>
    ELSE <<(S[i] + c) % LimbBase>> \o Carry(S, i + 1, (S[i] + c) \div LimbBase)

\* the product of two limb sequences
LimbMul(X, Y) ==
    LET n == Len(X) + Len(Y) - 1
        col(k) == LET idx == {i \in 1..Len(X) : k + 1 - i >= 1 /\ k + 1 - i <= Len(Y)}
                      f[T \in SUBSET idx] ==
                          IF T = {} THEN 0
                          ELSE LET i == CHOOSE j \in T : TRUE
                               IN X[i] * Y[k + 1 - i] + f[T \ {i}]
                  IN f[idx]
    IN Carry([k \in 1..n |-> col(k)], 1, 0)

\* L + 1
LimbInc(L) == Carry([i \in 1..Len(L) |-> IF i = 1 THEN L[i] + 1 ELSE L[i]], 1, 0)

\* value of a short limb sequence as an integer (caller guarantees it fits)
RECURSIVE LimbVal(_, _)
LimbVal(L, i) == IF i > Len(L) THEN 0 ELSE L[i] + LimbBase * LimbVal(L, i + 1)

\* drop leading (most significant) zero limbs
RECURSIVE Trim(_)
Trim(L) == IF Len(L) > 0 /\ L[Len(L)] = 0 THEN Trim(SubSeq(L, 1, Len(L) - 1)) ELSE L

\* floor(L / 2^s)
ShiftRight(L, s) ==
    LET k == s \div LimbBits
        t == s % LimbBits
        n == Max(Len(L) - k, 0)
    IN Trim([i \in 1..n |->
               (LimbAt(L, k + i) \div Pow2(t))
               + (LimbAt(L, k + i + 1) % Pow2(t)) * Pow2(LimbBits - t)])

\* bit b (0 = least significant) of L
BitAt(L, b) == (LimbAt(L, (b \div LimbBits) + 1) \div Pow2(b % LimbBits)) % 2

\* TRUE iff bits 0..b-1 of L are all zero
BitsBelowZero(L, b) ==
    /\ LowZero(L, b \div LimbBits)
    /\ LimbAt(L, (b \div LimbBits) + 1) % Pow2(b % LimbBits) = 0

\* L / 2^s rounded to the nearest integer, ties to even
RoundShift(L, s) ==
    LET q == ShiftRight(L, s)
        guard == IF s = 0 THEN 0 ELSE BitAt(L, s - 1)
        sticky == IF s <= 1 THEN FALSE ELSE ~BitsBelowZero(L, s - 1)
        odd == LimbAt(q, 1) % 2 = 1
    IN IF guard = 1 /\ (sticky \/ odd)
       THEN LimbInc(IF q = << >> THEN <<0>> ELSE q)
       ELSE q

\* a float: zero, or 2^e * (m / 2^52) with 2^52 <= m < 2^53
FZero == [z |-> TRUE, e |-> 0, m |-> <<0, 0, 0, 0, 0>>]

\* renormalise a significand that rounding carried up to 2^53
FNorm(e, m) ==
    IF LimbAt(m, MantLimbs) >= 2
    THEN [z |-> FALSE, e |-> e + 1, m |-> ShiftRight(m, 1)]
    ELSE [z |-> FALSE, e |-> e, m |-> m]

\* the exponent of a / b: b * 2^e <= a < b * 2^(e+1)
RECURSIVE DivExp(_, _)
DivExp(a, b) ==
    IF a >= 2 * b THEN DivExp(a, 2 * b) + 1
    ELSE IF a < b THEN DivExp(2 * a, b) - 1
    ELSE 0

\* quotient limbs of r / b, most significant first, k limbs
RECURSIVE DivLimbs(_, _, _)
DivLimbs(r, b, k) ==
    IF k = 0 THEN <<r>>
    ELSE <<(r * LimbBase) \div b>> \o DivLimbs((r * LimbBase) % b, b, k - 1)

Reverse(s) == [i \in 1..Len(s) |-> s[Len(s) + 1 - i]]

\* Python "a / b" for integers a >= 0, b > 0
FloatDiv(a, b) ==
    IF a = 0 THEN FZero
    ELSE LET e == DivExp(a, b)
             an == IF e < 0 THEN a * Pow2(-e) ELSE a
             bn == IF e > 0 THEN b * Pow2(e) ELSE b
             d == DivLimbs(an - bn, bn, MantLimbs - 1)
             \* d = four quotient limbs followed by the final remainder
             rem == d[MantLimbs]
             m == Reverse(SubSeq(d, 1, MantLimbs - 1)) \o <<1>>
             up == 2 * rem > bn \/ (2 * rem = bn /\ m[1] % 2 = 1)
         IN FNorm(e, IF up THEN LimbInc(m) ELSE m)

\* Python "x * y" for floats
FloatMul(x, y) ==
    IF x.z \/ y.z THEN FZero
    ELSE LET p == LimbMul(x.m, y.m)
             big == BitAt(p, 105) = 1
         IN FNorm(x.e + y.e + (IF big THEN 1 ELSE 0),
                  RoundShift(p, IF big THEN 53 ELSE 52))

\* Python "x < y" for floats
RECURSIVE LimbLess(_, _, _)
LimbLess(X, Y, i) ==
    IF i = 0 THEN FALSE
    ELSE IF X[i] # Y[i] THEN X[i] < Y[i]
    ELSE LimbLess(X, Y, i - 1)

FloatLess(x, y) ==
    IF y.z THEN FALSE
    ELSE IF x.z THEN TRUE
    ELSE IF x.e # y.e THEN x.e < y.e
    ELSE LimbLess(x.m, y.m, MantLimbs)

\* Python round(x, 4) for a float 0 <= x <= 1, as a count of ten-thousandths
Round4(x) ==
    IF x.z THEN 0
    ELSE LimbVal(RoundShift(LimbMul(x.m, <<10000 % LimbBase, 10000 \div LimbBase>>),
                            52 - x.e), 1)

(***************************************************************************)
(* The knowledge base tables.                                              *)
(***************************************************************************)
\* SymptomModel rows that curation can create; rank is the position of the
\* row under Meta.ordering = (category, name)
SymptomCatalog ==
    << [id |-> 1, name |-> "Fever",     category |-> "GENERAL",      rank |-> 3],
       [id |-> 2, name |-> "Cough",     category |-> "RESPIRATORY",  rank |-> 6],
       [id |-> 3, name |-> "Fatigue",   category |-> "GENERAL",      rank |-> 2],
       [id |-> 4, name |-> "Nausea",    category |-> "DIGESTIVE",    rank |-> 1],
       [id |-> 5, name |-> "Headache",  category |-> "NEUROLOGICAL", rank |-> 5],
       [id |-> 6, name |-> "Dizziness", category |-> "NEUROLOGICAL", rank |-> 4] >>

\* ids of the symptoms the seed_data command stores in the knowledge base
SymptomIds == 1..NumSymptoms

\* the SymptomModel table after seeding
SeededSymptomRows ==
    [i \in SymptomIds |-> [name |-> SymptomCatalog[i].name, stored |-> TRUE]]

\* ids of the rows of the SymptomModel table
StoredIds == {i \in SymptomIds : symptom_rows[i].stored}
\* an id that no stored symptom has
AbsentId == NumSymptoms + 1

\* DiseaseModel rows
DiseaseIds == {1, 2}
DiseaseName(d) == IF d = 1 THEN "Influenza" ELSE "Common Cold"

\* the rule table written by the seed_data command: FluRule
SeedRules == << [if_symptoms |-> {1, 2, 3}, then_disease |-> 1, confidence_factor |-> 75] >>

\* the symptom ids of the smoke test
SmokeTestSymptoms == <<1, 2, 3>>

\* values of DiagnosticRuleModel.confidence_factor that curation assigns
CuratedCFs == {10, 30}

\* every confidence_factor in the model
CFValues == CuratedCFs \cup {SeedRules[1].confidence_factor}

\* a DiagnosticRuleModel row created by curation (admin); the rule's name is
\* its number in evaluation order, and if_symptoms may be empty because
\* clean() is not enforced by the database
RuleRows == [if_symptoms : SUBSET SymptomIds,
             then_disease : DiseaseIds,
             confidence_factor : CuratedCFs]

RECURSIVE SeqsUpTo(_, _)
SeqsUpTo(S, n) ==
    IF n = 0 THEN {<< >>}
    ELSE LET shorter == SeqsUpTo(S, n - 1)
         IN shorter \cup {Append(s, x) : s \in {t \in shorter : Len(t) = n - 1}, x \in S}

\* name of a stored symptom
SymptomName(i) == symptom_rows[i].name

\* SymptomModel.objects.filter(id__in=ids).values_list("name"): the names of
\* the stored symptoms among ids, in Meta.ordering
RECURSIVE NamesByRank(_, _)
NamesByRank(ids, r) ==
    IF r > Len(SymptomCatalog) THEN << >>
    ELSE LET hit == {i \in ids \cap StoredIds : SymptomCatalog[i].rank = r}
         IN (IF hit = {} THEN << >> ELSE <<SymptomName(CHOOSE i \in hit : TRUE)>>)
            \o NamesByRank(ids, r + 1)

SymptomNames(ids) == NamesByRank(ids, 1)

\* set(symptoms)
RECURSIVE SeqToSet(_)
SeqToSet(s) == IF s = << >> THEN {} ELSE {Head(s)} \cup SeqToSet(Tail(s))

\* the ids of a set in ascending order
RECURSIVE Ascending(_)
Ascending(S) ==
    IF S = {} THEN << >>
    ELSE LET lo == CHOOSE x \in S : \A y \in S : x <= y
         IN <<lo>> \o Ascending(S \ {lo})

(***************************************************************************)
(* Outcomes of a call: a returned result or a raised exception.            *)
(***************************************************************************)
NoResult == [strategy |-> "NONE"]

Returned(result) == [kind |-> "ok", ids |-> << >>, text |-> "", result |-> result]

\* exceptions.py
InvalidSymptomError(missing_ids) ==
    [kind |-> "InvalidSymptomError", ids |-> missing_ids,
     text |-> "The following symptom IDs do not exist", result |-> NoResult]

\* variant: raised with sorted(symptom_set) instead of the submitted list
NoMatchingRuleErrorOfSet(symptom_ids) ==
    [kind |-> "NoMatchingRuleError", ids |-> Ascending(SeqToSet(symptom_ids)),
     text |-> "No diagnostic rules matched the provided symptoms.", result |-> NoResult]

NoMatchingRuleError(symptom_ids) ==
    [kind |-> "NoMatchingRuleError", ids |-> symptom_ids,
     text |-> "No diagnostic rules matched the provided symptoms.", result |-> NoResult]

\* what an exception of exceptions.py carries beside its message: the
\* attribute each class sets, also the one entry of its details, as a list
\* of ids
ErrorFields(exc) ==
    IF exc.kind = "InvalidSymptomError"
    THEN <<[name |-> "missing_ids", ids |-> exc.ids]>>
    ELSE IF exc.kind = "NoMatchingRuleError"
    THEN <<[name |-> "symptom_ids", ids |-> exc.ids]>>
    ELSE << >>

\* InferenceEngineError(message, details = {"original_error": original})
InferenceEngineError(original) ==
    [kind |-> "InferenceEngineError", ids |-> << >>, text |-> original, result |-> NoResult]

\* an exception that is not an InferenceEngineError, with str(exc) = text
RawError(kind, text) == [kind |-> kind, ids |-> << >>, text |-> text, result |-> NoResult]

\* str(exc) of the failures the environment can inject
DbErrorText == "database is locked"
KeyErrorText == "'symptom'"
ValueErrorText == "target_disease_id is required for backward chaining"

\* what can go wrong while a strategy runs: nothing, a django.db.DatabaseError
\* in a query of its try block, a DatabaseError in a query after the try block,
\* or a KeyError of explanation_template.format when a fired rule's template
\* has an unknown placeholder
Faults == {"none", "DatabaseError", "LateDatabaseError", "KeyError"}

(***************************************************************************)
(* ForwardChainingStrategy.execute_inference                               *)
(***************************************************************************)
\* variant: floor division, len(matched_ids) // len(rule_symptom_ids)
MatchRatioFloorDiv(matched_ids, rule_symptom_ids) ==
    FloatDiv(Cardinality(matched_ids) \div Cardinality(rule_symptom_ids), 1)

\* match_ratio = len(matched_ids) / len(rule_symptom_ids)
MatchRatio(matched_ids, rule_symptom_ids) ==
    FloatDiv(Cardinality(matched_ids), Cardinality(rule_symptom_ids))

\* variant: final_confidence = match_ratio * rule.confidence_factor
FinalConfidenceUnscaled(match_ratio, confidence_factor) ==
    FloatMul(match_ratio, FloatDiv(confidence_factor, 1))

\* final_confidence = match_ratio * (rule.confidence_factor / 100)
FinalConfidence(match_ratio, confidence_factor) ==
    FloatMul(match_ratio, FloatDiv(confidence_factor, 100))

\* the scores of every (matched count, required count, confidence factor),
\* computed once
ScoreOf(k) ==
    LET mr == MatchRatio(1..k[1], 1..k[2])
    IN [match_ratio |-> mr, final_confidence |-> FinalConfidence(mr, k[3])]

RECURSIVE ScoreRows(_)
ScoreRows(keys) ==
    IF keys = {} THEN << >>
    ELSE LET k == CHOOSE x \in keys : TRUE
         IN (k :> ScoreOf(k)) @@ ScoreRows(keys \ {k})

ScoreTable == ScoreRows((0..NumSymptoms) \X (1..NumSymptoms) \X CFValues)

\* the quotients len(matched_ids) / len(required_ids), computed once
RECURSIVE SatisfactionRows(_)
SatisfactionRows(keys) ==
    IF keys = {} THEN << >>
    ELSE LET k == CHOOSE x \in keys : TRUE
         IN (k :> FloatDiv(k[1], k[2])) @@ SatisfactionRows(keys \ {k})

SatisfactionTable == SatisfactionRows((0..NumSymptoms) \X (1..NumSymptoms))

\* round(x, 4) of every float in the tables, computed once
RECURSIVE RoundRows(_)
RoundRows(xs) ==
    IF xs = {} THEN << >>
    ELSE LET x == CHOOSE y \in xs : TRUE
         IN (x :> Round4(x)) @@ RoundRows(xs \ {x})

RoundTable ==
    RoundRows({FZero} \cup {ScoreTable[k].match_ratio : k \in DOMAIN ScoreTable}
                     \cup {ScoreTable[k].final_confidence : k \in DOMAIN ScoreTable}
                     \cup {SatisfactionTable[k] : k \in DOMAIN SatisfactionTable})

\* round(x, 4)
Rounded(x) == IF x \in DOMAIN RoundTable THEN RoundTable[x] ELSE Round4(x)

\* variant: a rule fires only when at least two of its symptoms are reported
FiresOnTwo(matched_ids) == Cardinality(matched_ids) >= 2

\* "if not matched_ids: continue"
Fires(matched_ids) == matched_ids # {}

\* the rule_record dict of rule number i from its scores sc and the names
\* of its matched symptoms, with the unrounded final_confidence kept beside
\* it for the aggregation
RuleRecord(i, rule, sc, matched_symptom_names) ==
    [raw |-> sc.final_confidence,
     rec |-> [rule_id |-> i,
              matched_symptoms |-> matched_symptom_names,
              match_ratio |-> Rounded(sc.match_ratio),
              confidence_factor |-> rule.confidence_factor,
              final_confidence |-> Rounded(sc.final_confidence),
              explanation |-> <<matched_symptom_names, DiseaseName(rule.then_disease)>>]]

\* the body of the loop for a rule that fires: matched_ids, match_ratio,
\* final_confidence and the rule_record
FwdRuleRecord(i, rule, symptom_set) ==
    RuleRecord(i, rule,
               ScoreTable[<<Cardinality(symptom_set \cap rule.if_symptoms),
                            Cardinality(rule.if_symptoms), rule.confidence_factor>>],
               SymptomNames(symptom_set \cap rule.if_symptoms))

\* variant: the confidence of the last fired rule replaces the kept one
KeepLast(existing, final_confidence) == final_confidence

\* "if final_confidence > existing['final_confidence']: existing[...] = final_confidence"
KeepHighest(existing, final_confidence) ==
    IF FloatLess(existing, final_confidence) THEN final_confidence ELSE existing

\* the update of the insertion-ordered dict disease_scores for one fired rule
Aggregate(disease_scores, d_id, r) ==
    IF \A k \in 1..Len(disease_scores) : disease_scores[k].disease_id # d_id
    THEN Append(disease_scores,
                [disease_id |-> d_id, disease_name |-> DiseaseName(d_id),
                 final_confidence |-> r.raw, matching_rules |-> <<r.rec>>])
    ELSE [k \in 1..Len(disease_scores) |->
            IF disease_scores[k].disease_id = d_id
            THEN [disease_scores[k] EXCEPT
                    !.matching_rules = Append(@, r.rec),
                    !.final_confidence = KeepHighest(@, r.raw)]
            ELSE disease_scores[k]]

\* the loop's effect on its accumulators for a fired rule with record r
FwdFired(acc, d_id, r) ==
    [acc EXCEPT !.total_evaluated = @ + 1,
                !.rules_fired = Append(@, r.rec),
                !.disease_scores = Aggregate(@, d_id, r)]

\* variant: "total_evaluated += 1" placed after the "continue"
SkippedUncounted(acc) == acc

\* the loop's effect on its accumulators for a rule that "continue" skips
Skipped(acc) == [acc EXCEPT !.total_evaluated = @ + 1]

\* the loop "for rule in all_rules", from rule number i on
RECURSIVE FwdLoop(_, _, _, _)
FwdLoop(all_rules, symptom_set, i, acc) ==
    IF i > Len(all_rules) THEN acc
    ELSE IF ~Fires(symptom_set \cap all_rules[i].if_symptoms)
    THEN FwdLoop(all_rules, symptom_set, i + 1, Skipped(acc))
    ELSE FwdLoop(all_rules, symptom_set, i + 1,
                 FwdFired(acc, all_rules[i].then_disease,
                          FwdRuleRecord(i, all_rules[i], symptom_set)))

\* sorted(..., key=final_confidence, reverse=True): x goes before the first
\* element whose key is smaller, so equal keys keep their order
InsertAt(ranked, x, pos) ==
    SubSeq(ranked, 1, pos - 1) \o <<x>> \o SubSeq(ranked, pos, Len(ranked))

RankInsert(ranked, x) ==
    InsertAt(ranked, x,
             IF \A k \in 1..Len(ranked) :
                   ~FloatLess(ranked[k].final_confidence, x.final_confidence)
             THEN Len(ranked) + 1
             ELSE CHOOSE k \in 1..Len(ranked) :
                     /\ FloatLess(ranked[k].final_confidence, x.final_confidence)
                     /\ \A j \in 1..(k - 1) :
                           ~FloatLess(ranked[j].final_confidence, x.final_confidence))

RECURSIVE RankDiseases(_, _)
RankDiseases(disease_scores, n) ==
    IF n = 0 THEN << >>
    ELSE RankInsert(RankDiseases(disease_scores, n - 1), disease_scores[n])

\* "for d in ranked_diseases: d['final_confidence'] = round(..., 4)"
RoundDiseases(ranked) ==
    [k \in 1..Len(ranked) |-> [ranked[k] EXCEPT !.final_confidence = Rounded(@)]]

\* what execute_inference raises or returns once the loop has left acc
ForwardOutcome(symptoms, fault, ms, acc) ==
    IF fault = "DatabaseError"
    THEN InferenceEngineError(DbErrorText)
    ELSE IF fault = "KeyError" /\ acc.rules_fired # << >>
    THEN RawError("KeyError", KeyErrorText)
    ELSE IF acc.rules_fired = << >>
    THEN NoMatchingRuleError(symptoms)
    ELSE Returned([strategy |-> "FORWARD_CHAINING",
                   diseases |-> RoundDiseases(RankDiseases(acc.disease_scores,
                                                           Len(acc.disease_scores))),
                   rules_fired |-> acc.rules_fired,
                   total_rules_evaluated |-> acc.total_evaluated,
                   execution_time_ms |-> ms])

\* execute_inference(symptoms) on the rule table all_rules; fault is what
\* goes wrong inside the try block, ms the measured elapsed time
ForwardChaining(all_rules, symptoms, fault, ms) ==
    ForwardOutcome(symptoms, fault, ms,
                   FwdLoop(all_rules, SeqToSet(symptoms), 1,
                           [rules_fired |-> << >>, disease_scores |-> << >>,
                            total_evaluated |-> 0]))

(***************************************************************************)
(* BackwardChainingStrategy.execute_inference                              *)
(***************************************************************************)
\* kwargs.get("target_disease_id") when the caller passed none
NoTarget == 0

\* variant: the numbers of all rules, whatever their then_disease
RulesOfAnyDisease(all_rules, disease_id, i) == [k \in 1..Len(all_rules) |-> k]

\* repository.get_rules_by_disease: the numbers of the rules whose
\* then_disease is disease_id, in evaluation order
RECURSIVE RulesByDisease(_, _, _)
RulesByDisease(all_rules, disease_id, i) ==
    IF i > Len(all_rules) THEN << >>
    ELSE (IF all_rules[i].then_disease = disease_id THEN <<i>> ELSE << >>)
         \o RulesByDisease(all_rules, disease_id, i + 1)

\* variant: satisfaction = len(missing_ids) / len(required_ids)
SatisfactionOfMissing(matched_ids, required_ids) ==
    IF required_ids = {} THEN FZero
    ELSE SatisfactionTable[<<Cardinality(required_ids) - Cardinality(matched_ids),
                             Cardinality(required_ids)>>]

\* satisfaction = len(matched_ids) / len(required_ids) if required_ids else 0.0
Satisfaction(matched_ids, required_ids) ==
    IF required_ids = {} THEN FZero
    ELSE SatisfactionTable[<<Cardinality(matched_ids), Cardinality(required_ids)>>]

\* variant: every evaluated rule is appended to rules_fired
BwdFiresAlways(satisfaction) == TRUE

\* "if satisfaction > 0"
BwdFires(satisfaction) == FloatLess(FZero, satisfaction)

\* variant: best_score = satisfaction of the last rule evaluated
KeepBestLast(best_score, satisfaction) == satisfaction

\* "if satisfaction > best_score: best_score = satisfaction"
KeepBest(best_score, satisfaction) ==
    IF FloatLess(best_score, satisfaction) THEN satisfaction ELSE best_score

\* the rule_result dict of rule number i
RuleResult(i, rule, missing_ids, matched_names, satisfaction_score) ==
    [rule_id |-> i,
     confidence_factor |-> rule.confidence_factor,
     required_symptoms |-> SymptomNames(rule.if_symptoms),
     matched_symptoms |-> matched_names,
     missing_symptoms |-> SymptomNames(missing_ids),
     satisfaction_score |-> satisfaction_score,
     is_fully_satisfied |-> (Cardinality(missing_ids) = 0)]

\* the loop's effect on its accumulators for rule number i
BwdEvaluated(acc, i, rule, target_name, missing_ids, matched_names, satisfaction, score) ==
    [evaluated |-> Append(acc.evaluated,
                          RuleResult(i, rule, missing_ids, matched_names, score)),
     rules_fired |-> IF BwdFires(satisfaction)
                     THEN Append(acc.rules_fired,
                                 [rule_id |-> i,
                                  satisfaction_score |-> score,
                                  explanation |-> <<matched_names, target_name>>])
                     ELSE acc.rules_fired,
     all_missing |-> acc.all_missing \cup missing_ids,
     best_score |-> KeepBest(acc.best_score, satisfaction)]

\* the body of the loop for one rule: required_ids, matched_ids, missing_ids
\* and satisfaction
BwdRule(acc, i, rule, symptom_set, target_disease_name, satisfaction) ==
    BwdEvaluated(acc, i, rule, target_disease_name,
                 rule.if_symptoms \ symptom_set,
                 SymptomNames(symptom_set \cap rule.if_symptoms),
                 satisfaction, Rounded(satisfaction))

\* the loop "for rule in rules" over the rule numbers idx, from position k on
RECURSIVE BwdLoop(_, _, _, _, _, _)
BwdLoop(all_rules, idx, symptom_set, target_disease_name, k, acc) ==
    IF k > Len(idx) THEN acc
    ELSE BwdLoop(all_rules, idx, symptom_set, target_disease_name, k + 1,
                 BwdRule(acc, idx[k], all_rules[idx[k]], symptom_set,
                         target_disease_name,
                         Satisfaction(symptom_set \cap all_rules[idx[k]].if_symptoms,
                                      all_rules[idx[k]].if_symptoms)))

\* variant: as forward chaining does, "if not rules_fired: raise
\* NoMatchingRuleError" after the loop
BackwardOutcomeNeedsFired(symptoms, target, fault, ms, idx, acc) ==
    IF target = NoTarget
    THEN RawError("ValueError", ValueErrorText)
    ELSE IF fault = "DatabaseError"
    THEN InferenceEngineError(DbErrorText)
    ELSE IF idx = << >> \/ acc.rules_fired = << >>
    THEN NoMatchingRuleError(symptoms)
    ELSE IF fault = "KeyError" /\ acc.rules_fired # << >>
    THEN RawError("KeyError", KeyErrorText)
    ELSE IF fault = "LateDatabaseError" /\ acc.all_missing # {}
    THEN RawError("DatabaseError", DbErrorText)
    ELSE Returned([strategy |-> "BACKWARD_CHAINING",
                   target_disease_id |-> target,
                   target_disease_name |-> DiseaseName(target),
                   rules_evaluated |-> acc.evaluated,
                   best_satisfaction_score |-> Rounded(acc.best_score),
                   overall_missing_symptoms |-> SymptomNames(acc.all_missing),
                   rules_fired |-> acc.rules_fired,
                   execution_time_ms |-> ms])

\* variant: the rules are fetched before target_disease_id is looked at
BackwardOutcomeQueryFirst(symptoms, target, fault, ms, idx, acc) ==
    IF fault = "DatabaseError"
    THEN InferenceEngineError(DbErrorText)
    ELSE IF target = NoTarget
    THEN RawError("ValueError", ValueErrorText)
    ELSE IF idx = << >>
    THEN NoMatchingRuleError(symptoms)
    ELSE IF fault = "KeyError" /\ acc.rules_fired # << >>
    THEN RawError("KeyError", KeyErrorText)
    ELSE IF fault = "LateDatabaseError" /\ acc.all_missing # {}
    THEN RawError("DatabaseError", DbErrorText)
    ELSE Returned([strategy |-> "BACKWARD_CHAINING",
                   target_disease_id |-> target,
                   target_disease_name |-> DiseaseName(target),
                   rules_evaluated |-> acc.evaluated,
                   best_satisfaction_score |-> Rounded(acc.best_score),
                   overall_missing_symptoms |-> SymptomNames(acc.all_missing),
                   rules_fired |-> acc.rules_fired,
                   execution_time_ms |-> ms])

\* what execute_inference raises or returns for the rules idx of the target
\* once the loop has left acc
BackwardOutcome(symptoms, target, fault, ms, idx, acc) ==
    IF target = NoTarget
    THEN RawError("ValueError", ValueErrorText)
    ELSE IF fault = "DatabaseError"
    THEN InferenceEngineError(DbErrorText)
    ELSE IF idx = << >>
    THEN NoMatchingRuleError(symptoms)
    ELSE IF fault = "KeyError" /\ acc.rules_fired # << >>
    THEN RawError("KeyError", KeyErrorText)
    ELSE IF fault = "LateDatabaseError" /\ acc.all_missing # {}
    THEN RawError("DatabaseError", DbErrorText)
    ELSE Returned([strategy |-> "BACKWARD_CHAINING",
                   target_disease_id |-> target,
                   target_disease_name |-> DiseaseName(target),
                   rules_evaluated |-> acc.evaluated,
                   best_satisfaction_score |-> Rounded(acc.best_score),
                   overall_missing_symptoms |-> SymptomNames(acc.all_missing),
                   rules_fired |-> acc.rules_fired,
                   execution_time_ms |-> ms])

\* the loop over the rules idx of the target
BackwardOver(all_rules, symptoms, target, fault, ms, idx) ==
    BackwardOutcome(symptoms, target, fault, ms, idx,
                    BwdLoop(all_rules, idx, SeqToSet(symptoms), DiseaseName(target), 1,
                            [evaluated |-> << >>, rules_fired |-> << >>,
                             all_missing |-> {}, best_score |-> FZero]))

\* execute_inference(symptoms, target_disease_id=target)
BackwardChaining(all_rules, symptoms, target, fault, ms) ==
    BackwardOver(all_rules, symptoms, target, fault, ms,
                 RulesByDisease(all_rules, target, 1))

\* the strategy object's execute_inference
ExecuteInference(strat, all_rules, symptoms, target, fault, ms) ==
    IF strat = "FORWARD" THEN ForwardChaining(all_rules, symptoms, fault, ms)
    ELSE BackwardChaining(all_rules, symptoms, target, fault, ms)

(***************************************************************************)
(* explain_result of both strategies.  A report is its title line and the  *)
(* lines after it; a line is its fixed wording (label) with the values     *)
(* formatted into it.                                                      *)
(***************************************************************************)
\* result.get(key, default)
GetOr(result, key, default) == IF key \in DOMAIN result THEN result[key] ELSE default

\* round(10 * y) of a float 0 <= y <= 100, ties to even
TenthsOf(y) == IF y.z THEN 0 ELSE LimbVal(RoundShift(LimbMul(y.m, <<10>>), 52 - y.e), 1)

\* f"{score * 100:.1f}" for a score of c ten-thousandths, as a count of
\* tenths of a percent
PercentTenths(c) == TenthsOf(FloatMul(FloatDiv(c, 10000), FloatDiv(100, 1)))

Line(label, id, text, num, names) ==
    [label |-> label, id |-> id, text |-> text, num |-> num, names |-> names]

\* the three lines of one entry of disease.get("matching_rules", [])
RuleLines(rule) ==
    << Line("   - rule", rule.rule_id, "", 0, << >>),
       Line("     matched symptoms", 0, "", 0, rule.matched_symptoms),
       Line("     explanation", 0, rule.explanation[2], 0, rule.explanation[1]) >>

RECURSIVE MatchingRuleLines(_, _)
MatchingRuleLines(matching_rules, j) ==
    IF j > Len(matching_rules) THEN << >>
    ELSE RuleLines(matching_rules[j]) \o MatchingRuleLines(matching_rules, j + 1)

\* the loop "for idx, disease in enumerate(result.get('diseases', []), start=1)"
RECURSIVE DiseaseLines(_, _)
DiseaseLines(diseases, k) ==
    IF k > Len(diseases) THEN << >>
    ELSE <<Line("confidence", k, diseases[k].disease_name,
                PercentTenths(diseases[k].final_confidence), << >>)>>
         \o MatchingRuleLines(GetOr(diseases[k], "matching_rules", << >>), 1)
         \o DiseaseLines(diseases, k + 1)

\* ForwardChainingStrategy.explain_result: disease["final_confidence"] raises
\* KeyError for a disease dict without that key
ForwardExplain(result) ==
    IF \E k \in 1..Len(GetOr(result, "diseases", << >>)) :
          "final_confidence" \notin DOMAIN result.diseases[k]
    THEN RawError("KeyError", "'final_confidence'")
    ELSE Returned(
           [title |-> "=== forward chaining diagnosis report ===",
            lines |->
              << Line("strategy", 0, GetOr(result, "strategy", "N/A"), 0, << >>),
                 Line("total rules evaluated", 0, "",
                      GetOr(result, "total_rules_evaluated", 0), << >>),
                 Line("rules fired", 0, "",
                      Len(GetOr(result, "rules_fired", << >>)), << >>),
                 Line("execution time", 0, "ms",
                      GetOr(result, "execution_time_ms", 0), << >>),
                 Line("--- ranked diseases ---", 0, "", 0, << >>) >>
              \o DiseaseLines(GetOr(result, "diseases", << >>), 1)])

\* the loop "for rule in result.get('rules_evaluated', [])"
RECURSIVE EvaluatedLines(_, _)
EvaluatedLines(rules_evaluated, k) ==
    IF k > Len(rules_evaluated) THEN << >>
    ELSE <<Line("score", rules_evaluated[k].rule_id,
                IF rules_evaluated[k].is_fully_satisfied THEN "SATISFIED" ELSE "PARTIAL",
                PercentTenths(rules_evaluated[k].satisfaction_score), << >>)>>
         \o (IF rules_evaluated[k].missing_symptoms # << >>
             THEN <<Line("  missing", 0, "", 0, rules_evaluated[k].missing_symptoms)>>
             ELSE << >>)
         \o EvaluatedLines(rules_evaluated, k + 1)

\* BackwardChainingStrategy.explain_result
BackwardExplain(result) ==
    Returned(
      [title |-> "=== backward chaining verification report ===",
       lines |->
         << Line("target disease", 0, GetOr(result, "target_disease_name", "N/A"),
                 0, << >>),
            Line("best satisfaction score", 0, "",
                 PercentTenths(GetOr(result, "best_satisfaction_score", 0)), << >>),
            Line("execution time", 0, "ms",
                 GetOr(result, "execution_time_ms", 0), << >>),
            (IF GetOr(result, "overall_missing_symptoms", << >>) # << >>
             THEN Line("missing symptoms to investigate", 0, "", 0,
                       result.overall_missing_symptoms)
             ELSE Line("all required symptoms are present for at least one rule",
                       0, "", 0, << >>)),
            Line("--- rules evaluated ---", 0, "", 0, << >>) >>
         \o EvaluatedLines(GetOr(result, "rules_evaluated", << >>), 1)])

\* the strategy object's explain_result
ExplainResult(strat, result) ==
    IF strat = "FORWARD" THEN ForwardExplain(result) ELSE BackwardExplain(result)

(***************************************************************************)
(* KnowledgeBaseRepository.get_all_symptoms and the cache behind it, with  *)
(* the edits the admin site makes to the SymptomModel table.               *)
(***************************************************************************)
\* _SYMPTOM_CACHE_TTL, in seconds
SYMPTOM_CACHE_TTL == 300

\* the seconds that pass at a time
ClockSteps == {150}

\* how many times the clock advances
MaxTicks == 5

\* how many edits the admin site makes to the SymptomModel table
MaxEdits == 2

\* the threads that call get_all_symptoms
Threads == {1, 2}

\* the names the admin site gives to renamed symptoms; each keeps its row's
\* place in Meta.ordering = (category, name)
RenamedNames ==
    << "Fever (pyrexia)", "Cough (dry)", "Fatigue (chronic)", "Nausea (mild)",
       "Headache (tension)", "Dizziness (vertigo)" >>

\* the rows of SymptomModel.objects.all(), in Meta.ordering
RECURSIVE AllByRank(_, _)
AllByRank(rows, r) ==
    IF r > Len(SymptomCatalog) THEN << >>
    ELSE LET hit == {i \in DOMAIN rows : rows[i].stored /\ SymptomCatalog[i].rank = r}
         IN (IF hit = {} THEN << >>
             ELSE LET i == CHOOSE j \in hit : TRUE
                  IN <<[id |-> i, name |-> rows[i].name,
                        category |-> SymptomCatalog[i].category]>>)
            \o AllByRank(rows, r + 1)

\* list(SymptomModel.objects.all())
AllSymptoms(rows) == AllByRank(rows, 1)

\* cache.get(key) returning None: no entry under the key
NoEntry == [present |-> FALSE, value |-> << >>, expires |-> 0]

\* variant: "if cached:" in place of "if cached is not None:"
IsHitTruthy(entry, now) == entry.present /\ now < entry.expires /\ entry.value # << >>

\* variant: the cache never drops an entry
IsHitAlways(entry, now) == entry.present

\* cache.get(_SYMPTOM_CACHE_KEY) is not None: an entry that has not expired
IsHit(entry, now) == entry.present /\ now < entry.expires

\* variant: the rows of the new list are added to the entry already there
CacheSetMerged(entry, value, timeout, now) ==
    [present |-> TRUE,
     value |-> entry.value
               \o SelectSeq(value, LAMBDA row :
                              \A k \in 1..Len(entry.value) : entry.value[k].id # row.id),
     expires |-> now + timeout]

\* cache.set(_SYMPTOM_CACHE_KEY, qs, _SYMPTOM_CACHE_TTL): the entry is replaced
CacheSet(entry, value, timeout, now) ==
    [present |-> TRUE, value |-> value, expires |-> now + timeout]

\* a thread outside get_all_symptoms
IdleReader == [pc |-> "idle", hit |-> FALSE, qs |-> << >>, result |-> << >>,
               returned_at |-> 0]

InitKb ==
    /\ symptom_rows = SeededSymptomRows
    /\ epochs = <<[value |-> AllSymptoms(SeededSymptomRows), since |-> 0]>>
    /\ cache = NoEntry
    /\ clock = 0
    /\ readers = [p \in Threads |-> IdleReader]

(***************************************************************************)
(* The inputs and the calls.                                               *)
(***************************************************************************)
\* the symptom id lists a caller can submit
SymptomLists == SeqsUpTo(1..AbsentId, MaxLen) \cup {SmokeTestSymptoms}

\* the lists of stored symptoms
StoredSymptomLists == {s \in SymptomLists : SeqToSet(s) \subseteq SymptomIds}

\* the seeded rule table and the curated tables of up to MaxRules rules
RuleTables == SeqsUpTo(RuleRows, MaxRules) \cup {SeedRules}

\* the target_disease_id keyword a caller can pass: none, a disease with
\* rules, a disease that may have none
Targets == {NoTarget} \cup DiseaseIds

\* the values int((time.perf_counter() - start) * 1000) takes
ElapsedValues == {12}

\* pc is the position of the call; validated is what validate_symptom_existence
\* returned, once it has; started_with is the service's strategy when the
\* call started and ran_with the one whose execute_inference it invoked;
\* raised is the exception as it was raised
\* by validation, by the strategy or by persistence, before diagnose's
\* handlers saw it; outcome is what the caller gets
NoCall == [pc |-> "idle", symptoms |-> << >>, patient_id |-> "", target |-> NoTarget,
           validated |-> [answered |-> FALSE, all_exist |-> FALSE, missing |-> << >>],
           started_with |-> "", ran_with |-> "",
           inferred |-> FALSE, result |-> NoResult, case_id |-> 0,
           raised |-> Returned(NoResult), outcome |-> Returned(NoResult)]

\* a direct call of execute_inference (symptoms, target, fault), or the call
\* of get_explanation (case_id) that has just returned; strategy is the
\* service's strategy during that call and trace_id the trace it read
NoProbe == [op |-> "none", symptoms |-> << >>, target |-> NoTarget, fault |-> "none",
            case_id |-> 0, strategy |-> "", trace_id |-> 0,
            outcome |-> Returned(NoResult)]

(***************************************************************************)
(* The strategies called directly on every rule table.                     *)
(***************************************************************************)
InitStrategies ==
    /\ InitKb
    /\ other = NoCall
    /\ rules \in RuleTables
    /\ strategy = "FORWARD"
    /\ cases = << >>
    /\ traces = << >>
    /\ call = NoCall
    /\ nCalls = 0
    /\ nReturned = 0
    /\ probe = NoProbe

\* ForwardChainingStrategy().execute_inference(symptoms)
ForwardExecute(symptoms, fault, ms) ==
    /\ probe.op = "none"
    /\ probe' = [NoProbe EXCEPT !.op = "forward", !.symptoms = symptoms, !.fault = fault,
                                !.outcome = ForwardChaining(rules, symptoms, fault, ms)]
    /\ UNCHANGED <<kbvars, other, rules, strategy, cases, traces, call, nCalls, nReturned>>

\* an id that no DiseaseModel row has
AbsentDiseaseId == 3

\* the target_disease_id keyword of a direct call: none, a stored disease, an
\* absent one
ProbeTargets == Targets \cup {AbsentDiseaseId}

\* BackwardChainingStrategy().execute_inference(symptoms, target_disease_id=target)
BackwardExecute(symptoms, target, fault, ms) ==
    /\ probe.op = "none"
    /\ probe' = [NoProbe EXCEPT !.op = "backward", !.symptoms = symptoms,
                                !.target = target, !.fault = fault,
                                !.outcome = BackwardChaining(rules, symptoms, target,
                                                             fault, ms)]
    /\ UNCHANGED <<kbvars, other, rules, strategy, cases, traces, call, nCalls, nReturned>>

NextStrategies ==
    \/ \E symptoms \in StoredSymptomLists, fault \in Faults \ {"LateDatabaseError"},
          ms \in ElapsedValues :
           ForwardExecute(symptoms, fault, ms)
    \/ \E symptoms \in StoredSymptomLists, target \in ProbeTargets, fault \in Faults,
          ms \in ElapsedValues :
           BackwardExecute(symptoms, target, fault, ms)

SpecStrategies == InitStrategies /\ [][NextStrategies]_vars

(***************************************************************************)
(* KnowledgeBaseRepository.validate_symptom_existence                      *)
(***************************************************************************)
\* variant: an absent id is reported once, at its first position
RECURSIVE MissingIdsOnce(_, _)
MissingIdsOnce(symptom_ids, existing_ids) ==
    IF symptom_ids = << >> THEN << >>
    ELSE (IF Head(symptom_ids) \in existing_ids THEN << >> ELSE <<Head(symptom_ids)>>)
         \o MissingIdsOnce(Tail(symptom_ids), existing_ids \cup {Head(symptom_ids)})

\* missing = [sid for sid in symptom_ids if sid not in existing_ids]
RECURSIVE MissingIds(_, _)
MissingIds(symptom_ids, existing_ids) ==
    IF symptom_ids = << >> THEN << >>
    ELSE (IF Head(symptom_ids) \in existing_ids THEN << >> ELSE <<Head(symptom_ids)>>)
         \o MissingIds(Tail(symptom_ids), existing_ids)

\* variant: missing = sorted(set(symptom_ids) - existing_ids)
ValidateSymptomExistenceSorted(symptom_ids) ==
    LET missing == Ascending(SeqToSet(symptom_ids) \ StoredIds)
    IN [all_exist |-> Len(missing) = 0, missing |-> missing]

\* returns (len(missing) == 0, missing)
ValidateSymptomExistence(symptom_ids) ==
    LET existing_ids == SeqToSet(symptom_ids) \cap StoredIds
        missing == MissingIds(symptom_ids, existing_ids)
    IN [all_exist |-> Len(missing) = 0, missing |-> missing]

(***************************************************************************)
(* DiagnosisService                                                        *)
(***************************************************************************)
\* a rule table with two diseases beside the seeded one
ClinicRules == << [if_symptoms |-> {1, 2}, then_disease |-> 2, confidence_factor |-> 30],
                  [if_symptoms |-> {1}, then_disease |-> 1, confidence_factor |-> 10] >>

ServiceRuleTables == {SeedRules, ClinicRules}

PatientIds == {"TEST-001"}

Strategies == {"FORWARD", "BACKWARD"}

\* result.get("diseases", [])
ResultDiseases(result) == IF "diseases" \in DOMAIN result THEN result.diseases ELSE << >>

\* variant: only "except InvalidSymptomError: raise" before "except Exception"
DiagnoseCatchInvalidOnly(exc) ==
    IF exc.kind = "InvalidSymptomError" THEN exc ELSE InferenceEngineError(exc.text)

\* the handlers of diagnose's try block: InvalidSymptomError and
\* InferenceEngineError (and its subclasses) are re-raised, anything else is
\* wrapped with details = {"original_error": str(exc)}
DiagnoseCatch(exc) ==
    IF exc.kind \in {"InvalidSymptomError", "NoMatchingRuleError", "InferenceEngineError"}
    THEN exc
    ELSE InferenceEngineError(exc.text)

\* the rows of SymptomModel.objects.filter(id__in=symptoms), in Meta.ordering
RECURSIVE SnapshotByRank(_, _)
SnapshotByRank(ids, r) ==
    IF r > Len(SymptomCatalog) THEN << >>
    ELSE LET hit == {i \in ids \cap StoredIds : SymptomCatalog[i].rank = r}
         IN (IF hit = {} THEN << >>
             ELSE LET i == CHOOSE j \in hit : TRUE
                  IN <<[id |-> i, name |-> SymptomName(i)]>>)
            \o SnapshotByRank(ids, r + 1)

\* auto_now_add: the instant at which row number n of a table is created;
\* rows are created at distinct instants, in the order of their ids
Instant(n) == [minute |-> n, second |-> 30]

\* t1 < t2 for two instants
Earlier(t1, t2) ==
    t1.minute < t2.minute \/ (t1.minute = t2.minute /\ t1.second < t2.second)

\* the PatientCaseModel row _persist_result creates
NewCase(id, result, patient_id, symptoms) ==
    LET diseases == ResultDiseases(result)
    IN [id |-> id,
        patient_identifier |-> patient_id,
        session_date |-> Instant(id),
        reported_symptoms_snapshot |-> SnapshotByRank(SeqToSet(symptoms), 1),
        inferred_results |->
            [k \in 1..Len(diseases) |->
                [disease_id |-> diseases[k].disease_id,
                 disease_name |-> diseases[k].disease_name,
                 confidence |-> diseases[k].final_confidence]],
        applied_rules_trace |->
            [k \in 1..Len(result.rules_fired) |->
                [rule_id |-> result.rules_fired[k].rule_id,
                 explanation |-> result.rules_fired[k].explanation]]]

\* the InferenceTraceModel row _persist_result creates
NewTrace(id, case_id, result) ==
    LET diseases == ResultDiseases(result)
        names == {diseases[k].disease_name : k \in 1..Len(diseases)}
    IN [id |-> id,
        patient_case |-> case_id,
        execution_timestamp |-> Instant(id),
        strategy_used |-> result.strategy,
        rules_fired |-> result.rules_fired,
        confidence_scores_calculated |->
            [n \in names |->
                LET k == CHOOSE j \in 1..Len(diseases) :
                            /\ diseases[j].disease_name = n
                            /\ \A l \in 1..Len(diseases) :
                                  diseases[l].disease_name = n => l <= j
                IN diseases[k].final_confidence],
        execution_time_ms |-> result.execution_time_ms]

Init ==
    /\ InitKb
    /\ other = NoCall
    /\ rules \in ServiceRuleTables
    /\ strategy \in Strategies
    /\ cases = << >>
    /\ traces = << >>
    /\ call = NoCall
    /\ nCalls = 0
    /\ nReturned = 0
    /\ probe = NoProbe

\* set_strategy
SetStrategy(s) ==
    /\ strategy # s
    /\ strategy' = s
    /\ probe' = NoProbe
    /\ UNCHANGED <<kbvars, other, rules, cases, traces, call, nCalls, nReturned>>

\* diagnose, lines 87-97: validation, outside the try block; dbError is a
\* DatabaseError raised by the validation query
DiagnoseValidate(symptoms, patient_id, target, dbError) ==
    /\ call.pc \in {"idle", "done"}
    /\ nCalls < MaxCalls
    /\ nCalls' = nCalls + 1
    /\ LET v == ValidateSymptomExistence(symptoms)
           started == [NoCall EXCEPT !.symptoms = symptoms, !.patient_id = patient_id,
                                     !.target = target, !.started_with = strategy]
       IN call' = IF dbError
                  THEN [started EXCEPT !.pc = "done",
                                       !.raised = RawError("DatabaseError", DbErrorText),
                                       !.outcome = RawError("DatabaseError", DbErrorText)]
                  ELSE IF ~v.all_exist
                  THEN [started EXCEPT !.pc = "done",
                                       !.validated = [answered |-> TRUE] @@ v,
                                       !.raised = InvalidSymptomError(v.missing),
                                       !.outcome = InvalidSymptomError(v.missing)]
                  ELSE [started EXCEPT !.pc = "infer",
                                       !.validated = [answered |-> TRUE] @@ v]
    /\ probe' = NoProbe
    /\ UNCHANGED <<kbvars, other, rules, strategy, cases, traces, nReturned>>

\* the call after execute_inference ended with out: on to persistence, or
\* through the handlers of the try block
AfterInference(c, out) ==
    IF out.kind = "ok"
    THEN [c EXCEPT !.pc = "persist", !.inferred = TRUE, !.result = out.result]
    ELSE [c EXCEPT !.pc = "done", !.inferred = TRUE,
                   !.raised = out, !.outcome = DiagnoseCatch(out)]

\* diagnose, lines 99-103: the active strategy's execute_inference
DiagnoseInfer(fault, ms) ==
    /\ call.pc = "infer"
    /\ call' = AfterInference([call EXCEPT !.ran_with = strategy],
                              ExecuteInference(strategy, rules, call.symptoms,
                                               call.target, fault, ms))
    /\ probe' = NoProbe
    /\ UNCHANGED <<kbvars, other, rules, strategy, cases, traces, nCalls, nReturned>>

\* _persist_result, lines 150-180: the snapshot query and the creation of the
\* case; dbError is a DatabaseError raised by either
DiagnosePersistCase(dbError) ==
    /\ call.pc = "persist"
    /\ IF dbError
       THEN /\ call' = [call EXCEPT !.pc = "done",
                           !.raised = RawError("DatabaseError", DbErrorText),
                           !.outcome = DiagnoseCatch(RawError("DatabaseError", DbErrorText))]
            /\ UNCHANGED cases
       ELSE /\ cases' = Append(cases, NewCase(Len(cases) + 1, call.result,
                                              call.patient_id, call.symptoms))
            /\ call' = [call EXCEPT !.pc = "trace", !.case_id = Len(cases) + 1]
    /\ probe' = NoProbe
    /\ UNCHANGED <<kbvars, other, rules, strategy, traces, nCalls, nReturned>>

\* variant: patient_case=PatientCaseModel.objects.last(), the newest case
CaseOfTraceNewest(c, all_cases) == Len(all_cases)

\* patient_case=case: the case this call created
CaseOfTrace(c, all_cases) == c.case_id

\* _persist_result, lines 182-198, and diagnose, lines 112-120: the creation
\* of the trace and the return; dbError is a DatabaseError raised by the
\* creation of the trace
DiagnosePersistTrace(dbError) ==
    /\ call.pc = "trace"
    /\ IF dbError
       THEN /\ call' = [call EXCEPT !.pc = "done",
                           !.raised = RawError("DatabaseError", DbErrorText),
                           !.outcome = DiagnoseCatch(RawError("DatabaseError", DbErrorText))]
            /\ UNCHANGED <<traces, nReturned>>
       ELSE /\ traces' = Append(traces, NewTrace(Len(traces) + 1,
                                                  CaseOfTrace(call, cases), call.result))
            /\ call' = [call EXCEPT !.pc = "done",
                           !.outcome = Returned(call.result @@ [case_id |-> call.case_id])]
            /\ nReturned' = nReturned + 1
    /\ probe' = NoProbe
    /\ UNCHANGED <<kbvars, other, rules, strategy, cases, nCalls>>

Next ==
    \/ \E s \in Strategies : SetStrategy(s)
    \/ \E symptoms \in SymptomLists, patient_id \in PatientIds, target \in Targets,
          dbError \in BOOLEAN :
          DiagnoseValidate(symptoms, patient_id, target, dbError)
    \/ \E fault \in Faults, ms \in ElapsedValues : DiagnoseInfer(fault, ms)
    \/ \E dbError \in BOOLEAN : DiagnosePersistCase(dbError)
    \/ \E dbError \in BOOLEAN : DiagnosePersistTrace(dbError)

Spec == Init /\ [][Next]_vars

(***************************************************************************)
(* DiagnosisService.get_explanation, and the admin site adding a trace to  *)
(* a stored case.                                                          *)
(***************************************************************************)
\* the size the trace table can reach through the admin site
MaxTraces == 3

\* InferenceTraceModel.Strategy
StrategyTags == {"FORWARD_CHAINING", "BACKWARD_CHAINING"}

\* trace.get_strategy_used_display()
StrategyDisplay(tag) ==
    IF tag = "FORWARD_CHAINING" THEN "Forward Chaining"
    ELSE IF tag = "BACKWARD_CHAINING" THEN "Backward Chaining"
    ELSE tag

\* f"{case.session_date:%Y-%m-%d %H:%M}"
FormatMinute(t) == [minute |-> t.minute]

\* "patient case with id {case_id} not found.", details = {"case_id": case_id}
CaseNotFound(case_id) ==
    [kind |-> "InferenceEngineError", ids |-> <<case_id>>,
     text |-> "patient case with id {case_id} not found.", result |-> NoResult]

\* "no inference trace found for case {case_id}.", details = {"case_id": case_id}
TraceNotFound(case_id) ==
    [kind |-> "InferenceEngineError", ids |-> <<case_id>>,
     text |-> "no inference trace found for case {case_id}.", result |-> NoResult]

\* variant: order_by("execution_timestamp").first()
EarliestTrace(all_traces, case_id) ==
    LET own == {t \in 1..Len(all_traces) : all_traces[t].patient_case = case_id}
    IN IF own = {} THEN 0
       ELSE CHOOSE t \in own :
               \A u \in own \ {t} : Earlier(all_traces[t].execution_timestamp,
                                             all_traces[u].execution_timestamp)

\* case.inference_logs.order_by("-execution_timestamp").first(): the number
\* of the trace, 0 for None
LatestTrace(all_traces, case_id) ==
    LET own == {t \in 1..Len(all_traces) : all_traces[t].patient_case = case_id}
    IN IF own = {} THEN 0
       ELSE CHOOSE t \in own :
               \A u \in own \ {t} : Earlier(all_traces[u].execution_timestamp,
                                             all_traces[t].execution_timestamp)

\* the reconstructed result dict
Reconstructed(case, trace) ==
    [strategy |-> trace.strategy_used,
     diseases |-> case.inferred_results,
     rules_fired |-> trace.rules_fired,
     execution_time_ms |-> trace.execution_time_ms,
     total_rules_evaluated |-> Len(trace.rules_fired)]

\* the header lines
Header(case, trace) ==
    [patient |-> case.patient_identifier,
     session |-> FormatMinute(case.session_date),
     strategy |-> StrategyDisplay(trace.strategy_used)]

\* f"{header}\n{body}", or the exception explain_result raised
WithHeader(header, body) ==
    IF body.kind # "ok" THEN body
    ELSE Returned([strategy |-> "NONE", header |-> header, body |-> body.result])

\* get_explanation once the case is loaded and its latest trace is number t
ExplainCase(all_traces, strat, case, t) ==
    IF t = 0 THEN TraceNotFound(case.id)
    ELSE WithHeader(Header(case, all_traces[t]),
                    ExplainResult(strat, Reconstructed(case, all_traces[t])))

\* what get_explanation(case_id) returns or raises on a service whose
\* strategy is strat
Explanation(all_cases, all_traces, strat, case_id) ==
    IF case_id \notin 1..Len(all_cases) THEN CaseNotFound(case_id)
    ELSE ExplainCase(all_traces, strat, all_cases[case_id],
                     LatestTrace(all_traces, case_id))

\* the case ids a caller asks about: every id a case can have and one more
CaseIds == 1..(MaxCalls + 1)

\* get_explanation(case_id)
GetExplanation(case_id) ==
    /\ probe' = [NoProbe EXCEPT !.op = "explain", !.case_id = case_id,
                                !.strategy = strategy,
                                !.trace_id = LatestTrace(traces, case_id),
                                !.outcome = Explanation(cases, traces, strategy, case_id)]
    /\ UNCHANGED <<kbvars, other, rules, strategy, cases, traces, call, nCalls, nReturned>>

\* the values of execution_time_ms entered in the admin form
AdminElapsedValues == {0}

\* InferenceTraceModelAdmin: a trace added by hand to a stored case, with the
\* defaults of its JSON fields
AdminAddTrace(case_id, tag, ms) ==
    /\ case_id \in 1..Len(cases)
    /\ Len(traces) < MaxTraces
    /\ traces' = Append(traces,
                        [id |-> Len(traces) + 1,
                         patient_case |-> case_id,
                         execution_timestamp |-> Instant(Len(traces) + 1),
                         strategy_used |-> tag,
                         rules_fired |-> << >>,
                         confidence_scores_calculated |-> << >>,
                         execution_time_ms |-> ms])
    /\ probe' = NoProbe
    /\ UNCHANGED <<kbvars, other, rules, strategy, cases, call, nCalls, nReturned>>

\* the diagnose calls that fill the tables: one or two stored symptoms, with
\* or without a target, where only the writes of _persist_result can fail
ExplainSymptomLists == {<<1>>, <<1, 2>>}

ExplainTargets == {NoTarget, 1}

NextExplain ==
    \/ \E s \in Strategies : SetStrategy(s)
    \/ \E symptoms \in ExplainSymptomLists, patient_id \in PatientIds,
          target \in ExplainTargets :
          DiagnoseValidate(symptoms, patient_id, target, FALSE)
    \/ \E ms \in ElapsedValues : DiagnoseInfer("none", ms)
    \/ \E dbError \in BOOLEAN : DiagnosePersistCase(dbError)
    \/ \E dbError \in BOOLEAN : DiagnosePersistTrace(dbError)
    \/ \E case_id \in CaseIds : GetExplanation(case_id)
    \/ \E case_id \in CaseIds, tag \in StrategyTags, ms \in AdminElapsedValues :
          AdminAddTrace(case_id, tag, ms)

SpecExplain == Init /\ [][NextExplain]_vars

(***************************************************************************)
(* get_all_symptoms called from two threads while the admin site edits the *)
(* SymptomModel table and time passes.                                     *)
(***************************************************************************)
\* cached = cache.get(_SYMPTOM_CACHE_KEY): an entry that has not expired is
\* returned as it is; an expired one is dropped by the cache
GetCached(p) ==
    /\ readers[p].pc = "idle"
    /\ IF IsHit(cache, clock)
       THEN /\ readers' = [readers EXCEPT ![p] =
                             [IdleReader EXCEPT !.pc = "returned", !.hit = TRUE,
                                                !.result = cache.value,
                                                !.returned_at = clock]]
            /\ cache' = cache
       ELSE /\ readers' = [readers EXCEPT ![p] = [IdleReader EXCEPT !.pc = "miss"]]
            /\ cache' = NoEntry
    /\ UNCHANGED <<symptom_rows, epochs, clock, rules, other, strategy, cases, traces, call,
                   nCalls, nReturned, probe>>

\* qs = SymptomModel.objects.all(), which cache.set evaluates with one query
\* when it pickles it
LoadSymptoms(p) ==
    /\ readers[p].pc = "miss"
    /\ readers' = [readers EXCEPT ![p].pc = "loaded", ![p].qs = AllSymptoms(symptom_rows)]
    /\ UNCHANGED <<symptom_rows, epochs, cache, clock, rules, other, strategy, cases, traces,
                   call, nCalls, nReturned, probe>>

\* cache.set stores the pickled list under the cache's lock, and the method
\* returns qs
StoreSymptoms(p) ==
    /\ readers[p].pc = "loaded"
    /\ cache' = CacheSet(cache, readers[p].qs, SYMPTOM_CACHE_TTL, clock)
    /\ readers' = [readers EXCEPT ![p].pc = "returned", ![p].result = readers[p].qs,
                                  ![p].returned_at = clock]
    /\ UNCHANGED <<symptom_rows, epochs, clock, rules, other, strategy, cases, traces, call,
                   nCalls, nReturned, probe>>

\* the caller has the list; the thread can call again
ReaderDone(p) ==
    /\ readers[p].pc = "returned"
    /\ readers' = [readers EXCEPT ![p] = IdleReader]
    /\ UNCHANGED <<symptom_rows, epochs, cache, clock, rules, other, strategy, cases, traces,
                   call, nCalls, nReturned, probe>>

\* time passes
Tick(step) ==
    /\ clock + step <= MaxTicks * step
    /\ clock' = clock + step
    /\ UNCHANGED <<symptom_rows, epochs, cache, readers, rules, other, strategy, cases, traces,
                   call, nCalls, nReturned, probe>>

\* the table holds new contents from now on
Edited(rows) == Append(epochs, [value |-> AllSymptoms(rows), since |-> clock])

\* SymptomModelAdmin: the name of a stored symptom is changed
RenameSymptom(i) ==
    /\ i \in StoredIds
    /\ symptom_rows[i].name # RenamedNames[i]
    /\ Len(epochs) <= MaxEdits
    /\ symptom_rows' = [symptom_rows EXCEPT ![i].name = RenamedNames[i]]
    /\ epochs' = Edited(symptom_rows')
    /\ UNCHANGED <<cache, clock, readers, rules, other, strategy, cases, traces, call,
                   nCalls, nReturned, probe>>

\* variant: the snapshot is a relation to SymptomModel rows, so deleting a
\* symptom removes it from the stored cases as well
DeleteSymptomFromCases(i) ==
    /\ i \in StoredIds
    /\ Len(epochs) <= MaxEdits
    /\ symptom_rows' = [symptom_rows EXCEPT ![i].stored = FALSE]
    /\ epochs' = Edited(symptom_rows')
    /\ rules' = [k \in DOMAIN rules |->
                    [rules[k] EXCEPT !.if_symptoms = rules[k].if_symptoms \ {i}]]
    /\ cases' = [k \in DOMAIN cases |->
                    [cases[k] EXCEPT !.reported_symptoms_snapshot =
                        SelectSeq(cases[k].reported_symptoms_snapshot,
                                  LAMBDA row : row.id # i)]]
    /\ UNCHANGED <<cache, clock, readers, other, strategy, traces, call,
                   nCalls, nReturned, probe>>

\* SymptomModelAdmin: a stored symptom is deleted, and with it its rows in
\* the if_symptoms relation of the rules
DeleteSymptom(i) ==
    /\ i \in StoredIds
    /\ Len(epochs) <= MaxEdits
    /\ symptom_rows' = [symptom_rows EXCEPT ![i].stored = FALSE]
    /\ epochs' = Edited(symptom_rows')
    /\ rules' = [k \in DOMAIN rules |->
                    [rules[k] EXCEPT !.if_symptoms = rules[k].if_symptoms \ {i}]]
    /\ UNCHANGED <<cache, clock, readers, other, strategy, cases, traces, call,
                   nCalls, nReturned, probe>>

\* the table after seeding, and a table that holds one symptom only
CacheSymptomTables ==
    {SeededSymptomRows,
     [i \in SymptomIds |-> [name |-> SymptomCatalog[i].name, stored |-> i = 1]]}

InitCache ==
    /\ symptom_rows \in CacheSymptomTables
    /\ epochs = <<[value |-> AllSymptoms(symptom_rows), since |-> 0]>>
    /\ cache = NoEntry
    /\ clock = 0
    /\ readers = [p \in Threads |-> IdleReader]
    /\ other = NoCall
    /\ rules = << >>
    /\ strategy = "FORWARD"
    /\ cases = << >>
    /\ traces = << >>
    /\ call = NoCall
    /\ nCalls = 0
    /\ nReturned = 0
    /\ probe = NoProbe

NextCache ==
    \/ \E p \in Threads : GetCached(p)
    \/ \E p \in Threads : LoadSymptoms(p)
    \/ \E p \in Threads : StoreSymptoms(p)
    \/ \E p \in Threads : ReaderDone(p)
    \/ \E step \in ClockSteps : Tick(step)
    \/ \E i \in SymptomIds : RenameSymptom(i)
    \/ \E i \in SymptomIds : DeleteSymptom(i)

SpecCache == InitCache /\ [][NextCache]_vars

(***************************************************************************)
(* diagnose while the admin site edits the SymptomModel table.             *)
(***************************************************************************)
\* the lists submitted: two stored symptoms, and one symptom twice
EditSymptomLists == {<<1, 2>>, <<2, 2>>}

NextEdits ==
    \/ \E symptoms \in EditSymptomLists, patient_id \in PatientIds,
          target \in ExplainTargets :
          DiagnoseValidate(symptoms, patient_id, target, FALSE)
    \/ \E ms \in ElapsedValues : DiagnoseInfer("none", ms)
    \/ \E dbError \in BOOLEAN : DiagnosePersistCase(dbError)
    \/ \E dbError \in BOOLEAN : DiagnosePersistTrace(dbError)
    \/ \E i \in SymptomIds : RenameSymptom(i)
    \/ \E i \in SymptomIds : DeleteSymptom(i)

SpecEdits == Init /\ [][NextEdits]_vars

(***************************************************************************)
(* diagnose called from two threads at once.  The second thread's call is  *)
(* told from the first by its patient_id and by the time its inference     *)
(* takes.                                                                  *)
(***************************************************************************)
OtherPatientIds == {"TEST-002"}

OtherElapsedValues == {7}

\* diagnose on the second thread, lines 87-103: validation and the active
\* strategy's execute_inference; the thread makes one call
OtherInfer(symptoms, patient_id, target, ms) ==
    /\ other.pc = "idle"
    /\ LET v == ValidateSymptomExistence(symptoms)
           started == [NoCall EXCEPT !.symptoms = symptoms, !.patient_id = patient_id,
                                     !.target = target, !.started_with = strategy,
                                     !.validated = [answered |-> TRUE] @@ v]
       IN other' = IF ~v.all_exist
                   THEN [started EXCEPT !.pc = "done",
                                        !.raised = InvalidSymptomError(v.missing),
                                        !.outcome = InvalidSymptomError(v.missing)]
                   ELSE AfterInference([started EXCEPT !.ran_with = strategy],
                                       ExecuteInference(strategy, rules, symptoms,
                                                        target, "none", ms))
    /\ probe' = NoProbe
    /\ UNCHANGED <<kbvars, call, rules, strategy, cases, traces, nCalls, nReturned>>

\* _persist_result on the second thread, lines 150-180
OtherPersistCase(dbError) ==
    /\ other.pc = "persist"
    /\ IF dbError
       THEN /\ other' = [other EXCEPT !.pc = "done",
                           !.raised = RawError("DatabaseError", DbErrorText),
                           !.outcome = DiagnoseCatch(RawError("DatabaseError", DbErrorText))]
            /\ UNCHANGED cases
       ELSE /\ cases' = Append(cases, NewCase(Len(cases) + 1, other.result,
                                              other.patient_id, other.symptoms))
            /\ other' = [other EXCEPT !.pc = "trace", !.case_id = Len(cases) + 1]
    /\ probe' = NoProbe
    /\ UNCHANGED <<kbvars, call, rules, strategy, traces, nCalls, nReturned>>

\* _persist_result on the second thread, lines 182-198, and diagnose, lines
\* 112-120
OtherPersistTrace(dbError) ==
    /\ other.pc = "trace"
    /\ IF dbError
       THEN /\ other' = [other EXCEPT !.pc = "done",
                           !.raised = RawError("DatabaseError", DbErrorText),
                           !.outcome = DiagnoseCatch(RawError("DatabaseError", DbErrorText))]
            /\ UNCHANGED traces
       ELSE /\ traces' = Append(traces, NewTrace(Len(traces) + 1,
                                                  CaseOfTrace(other, cases), other.result))
            /\ other' = [other EXCEPT !.pc = "done",
                           !.outcome = Returned(other.result @@ [case_id |-> other.case_id])]
    /\ probe' = NoProbe
    /\ UNCHANGED <<kbvars, call, rules, strategy, cases, nCalls, nReturned>>

NextConcurrent ==
    \/ \E symptoms \in ExplainSymptomLists, patient_id \in PatientIds,
          target \in ExplainTargets :
          DiagnoseValidate(symptoms, patient_id, target, FALSE)
    \/ \E ms \in ElapsedValues : DiagnoseInfer("none", ms)
    \/ \E dbError \in BOOLEAN : DiagnosePersistCase(dbError)
    \/ \E dbError \in BOOLEAN : DiagnosePersistTrace(dbError)
    \/ \E symptoms \in ExplainSymptomLists, patient_id \in OtherPatientIds,
          target \in ExplainTargets, ms \in OtherElapsedValues :
          OtherInfer(symptoms, patient_id, target, ms)
    \/ \E dbError \in BOOLEAN : OtherPersistCase(dbError)
    \/ \E dbError \in BOOLEAN : OtherPersistTrace(dbError)

SpecConcurrent == Init /\ [][NextConcurrent]_vars

(***************************************************************************)
(* Properties of DiagnosisService.diagnose, checked under Spec.            *)
(***************************************************************************)
\* the ids of a list that no stored symptom has, in the list's order
AbsentSubsequence(symptom_ids) == SelectSeq(symptom_ids, LAMBDA sid : sid \notin SymptomIds)

HasAbsentId(symptom_ids) == \E k \in 1..Len(symptom_ids) : symptom_ids[k] \notin SymptomIds

\* the exceptions that are not validation or matching errors
Unexpected(exc) == exc.kind \in {"InferenceEngineError", "DatabaseError", "KeyError", "ValueError"}

C2_PersistedOncePerSuccess ==
    call.pc \in {"idle", "done"} => Len(cases) = nReturned /\ Len(traces) = nReturned

\* C3: once a diagnose call has finished, with a result or with an error,
\* every persisted case has a linked trace.
C3_NoOrphanedCase ==
    call.pc \in {"idle", "done"} =>
        \A c \in 1..Len(cases) : \E t \in 1..Len(traces) : traces[t].patient_case = cases[c].id

\* C4: an InvalidSymptomError raised by validation and a NoMatchingRuleError
\* raised by the active strategy reach the caller with their kind and their
\* ids (the absent ids, the submitted ids) unchanged, with no result attached
\* and nothing persisted.
C4_TypedErrorsVerbatim ==
    (call.pc = "done" /\ call.raised.kind \in {"InvalidSymptomError", "NoMatchingRuleError"}) =>
        /\ call.outcome.kind = call.raised.kind
        /\ call.outcome.ids = (IF call.raised.kind = "InvalidSymptomError"
                                THEN AbsentSubsequence(call.symptoms)
                                ELSE call.symptoms)
        /\ call.outcome.text = call.raised.text
        /\ call.outcome.result = NoResult
        /\ call.case_id = 0

\* C4 witness: the active strategy raised NoMatchingRuleError for a non-empty
\* list of stored symptoms
C4_Witness ==
    /\ call.pc = "done"
    /\ call.inferred
    /\ call.symptoms # << >>
    /\ call.raised.kind = "NoMatchingRuleError"
    /\ call.outcome.kind = "NoMatchingRuleError"

FwdReturned == probe.op = "forward" /\ probe.outcome.kind = "ok"

\* the numbers of the rules that share a symptom with the reported set
Overlapping == {i \in 1..Len(rules) : rules[i].if_symptoms \cap SeqToSet(probe.symptoms) # {}}

\* num / den rounded to the nearest integer, ties to even, in exact arithmetic
ExactRound(num, den) ==
    LET q == num \div den
        r == num % den
    IN IF 2 * r > den \/ (2 * r = den /\ q % 2 = 1) THEN q + 1 ELSE q

\* the largest element of a non-empty set of integers
MaxOf(S) == CHOOSE x \in S : \A y \in S : y <= x

\* C6: the confidence reported for each ranked disease is the maximum
\* final_confidence over the fired rules that conclude that disease, and is
\* the final_confidence recorded on one of the disease's matching rules.
C6_DiseaseConfidenceIsMax ==
    FwdReturned =>
        LET res == probe.outcome.result
        IN \A k \in 1..Len(res.diseases) :
              LET d == res.diseases[k]
                  own == {j \in 1..Len(res.rules_fired) :
                            rules[res.rules_fired[j].rule_id].then_disease = d.disease_id}
              IN /\ own # {}
                 /\ d.final_confidence = MaxOf({res.rules_fired[j].final_confidence : j \in own})
                 /\ \E j \in 1..Len(d.matching_rules) :
                       d.matching_rules[j].final_confidence = d.final_confidence

\* C6 witness: a disease with two fired rules of different confidence, the
\* higher one evaluated first
C6_Witness ==
    /\ FwdReturned
    /\ \E k \in 1..Len(probe.outcome.result.diseases) :
          LET m == probe.outcome.result.diseases[k].matching_rules
          IN Len(m) = 2 /\ m[1].final_confidence > m[2].final_confidence

\* C7: the ranked list is ordered by confidence descending, and two diseases
\* with equal confidence appear in the order in which their first firing
\* rule was evaluated.
C7_RankingStable ==
    FwdReturned =>
        LET ds == probe.outcome.result.diseases
        IN \A i, j \in 1..Len(ds) :
              i < j =>
                /\ ds[i].final_confidence >= ds[j].final_confidence
                /\ ds[i].final_confidence = ds[j].final_confidence =>
                      ds[i].matching_rules[1].rule_id < ds[j].matching_rules[1].rule_id

\* C8: without a failure inside the strategy, forward chaining raises
\* NoMatchingRuleError exactly when no rule shares a symptom with the reported
\* set, the error carries the submitted list unchanged, and otherwise a result
\* with a non-empty ranked disease list is returned.
C8_NoMatchIffNoOverlap ==
    (probe.op = "forward" /\ probe.fault = "none") =>
        IF Overlapping = {}
        THEN /\ probe.outcome.kind = "NoMatchingRuleError"
             /\ probe.outcome.ids = probe.symptoms
        ELSE /\ probe.outcome.kind = "ok"
             /\ Len(probe.outcome.result.diseases) >= 1

\* C8 witness: rules exist, none shares a symptom with a reported list that
\* is not in ascending order
C8_Witness ==
    /\ probe.op = "forward"
    /\ probe.fault = "none"
    /\ Len(rules) >= 1
    /\ \A i \in 1..Len(rules) : rules[i].if_symptoms # {}
    /\ probe.symptoms = <<2, 1>>
    /\ probe.outcome.kind = "NoMatchingRuleError"

\* C9: the fired-rules list holds, in evaluation order and once each, exactly
\* the rules that share a symptom with the reported set, whatever their
\* disease; a rule without overlap is in no disease's rule list.
C9_FiredIffOverlap ==
    FwdReturned =>
        LET res == probe.outcome.result
            fired == [k \in 1..Len(res.rules_fired) |-> res.rules_fired[k].rule_id]
        IN /\ \A k \in 1..Len(fired) - 1 : fired[k] < fired[k + 1]
           /\ {fired[k] : k \in 1..Len(fired)} = Overlapping
           /\ \A k \in 1..Len(res.diseases) :
                 \A j \in 1..Len(res.diseases[k].matching_rules) :
                    res.diseases[k].matching_rules[j].rule_id \in Overlapping

\* C9 witness: the first rule has symptoms but none of the reported ones, the
\* second rule fires alone
C9_Witness ==
    /\ FwdReturned
    /\ Len(rules) = 2
    /\ rules[1].if_symptoms # {}
    /\ Overlapping = {2}
    /\ Len(probe.outcome.result.rules_fired) = 1
    /\ probe.outcome.result.rules_fired[1].rule_id = 2

\* C10: every fired rule records match_ratio = |reported /\ required| /
\* |required| and final_confidence = match_ratio * confidence_factor / 100,
\* both rounded to 4 decimals; a fully reported rule of factor 75 records 1
\* and 0.75, and one of three required symptoms records 0.3333 and 0.25.
C10_RuleScores ==
    FwdReturned =>
        \A k \in 1..Len(probe.outcome.result.rules_fired) :
            LET r == probe.outcome.result.rules_fired[k]
                required == rules[r.rule_id].if_symptoms
                m == Cardinality(SeqToSet(probe.symptoms) \cap required)
                n == Cardinality(required)
                cf == rules[r.rule_id].confidence_factor
            IN /\ r.confidence_factor = cf
               /\ r.match_ratio = ExactRound(10000 * m, n)
               /\ r.final_confidence = ExactRound(100 * m * cf, n)
               /\ (m = n /\ cf = 75) => r.match_ratio = 10000 /\ r.final_confidence = 7500
               /\ (m = 1 /\ n = 3 /\ cf = 75) =>
                     r.match_ratio = 3333 /\ r.final_confidence = 2500

\* C10 witness: scenario B, one of the three symptoms of the seeded rule
C10_Witness ==
    /\ FwdReturned
    /\ rules = SeedRules
    /\ probe.symptoms = <<1>>
    /\ probe.outcome.result.rules_fired[1].final_confidence = 2500

(***************************************************************************)
(* Properties of both strategies' execute_inference, checked under         *)
(* SpecStrategies.  Scores are counted in ten-thousandths, so [0, 1] is    *)
(* 0..10000.                                                               *)
(***************************************************************************)
\* the backward call has returned a result
BwdReturned == probe.op = "backward" /\ probe.outcome.kind = "ok"

UnitInterval == 0..10000

\* the limits of DiagnosticRuleModel.confidence_factor's validators
CFLimits == {0, 100}

\* the rounded final_confidence of every match count at the limits of
\* confidence_factor lies in [0, 1]
LimitScoresInUnitInterval ==
    \A n \in 1..NumSymptoms : \A m \in 0..n : \A cf \in CFLimits :
        Round4(FinalConfidence(MatchRatio(1..m, 1..n), cf)) \in UnitInterval

\* C11: in every result of either strategy, every match_ratio, every
\* satisfaction_score and best_satisfaction_score lies in [0, 1], and with
\* confidence factors in [0, 100] every final_confidence of a rule and of a
\* disease lies in [0, 1].
C11_ScoresInUnitInterval ==
    /\ LimitScoresInUnitInterval
    /\ FwdReturned =>
          LET res == probe.outcome.result
          IN /\ \A k \in 1..Len(res.rules_fired) :
                   /\ res.rules_fired[k].match_ratio \in UnitInterval
                   /\ res.rules_fired[k].final_confidence \in UnitInterval
             /\ \A k \in 1..Len(res.diseases) :
                   /\ res.diseases[k].final_confidence \in UnitInterval
                   /\ \A j \in 1..Len(res.diseases[k].matching_rules) :
                         /\ res.diseases[k].matching_rules[j].match_ratio \in UnitInterval
                         /\ res.diseases[k].matching_rules[j].final_confidence
                               \in UnitInterval
    /\ BwdReturned =>
          LET res == probe.outcome.result
          IN /\ res.best_satisfaction_score \in UnitInterval
             /\ \A k \in 1..Len(res.rules_evaluated) :
                   res.rules_evaluated[k].satisfaction_score \in UnitInterval
             /\ \A k \in 1..Len(res.rules_fired) :
                   res.rules_fired[k].satisfaction_score \in UnitInterval

\* C11 witness: a backward result that reaches both ends of the interval, one
\* rule fully satisfied and one with no reported symptom
C11_Witness ==
    /\ BwdReturned
    /\ probe.outcome.result.best_satisfaction_score = 10000
    /\ \E k \in 1..Len(probe.outcome.result.rules_evaluated) :
          probe.outcome.result.rules_evaluated[k].satisfaction_score = 0

\* the numbers of the rules that conclude the target of the backward call
TargetRules == {i \in 1..Len(rules) : rules[i].then_disease = probe.target}

\* C12: backward chaining towards a disease that has no rule, stored or not,
\* never returns a result, whatever the reported symptoms: unless the rules
\* query itself fails it raises NoMatchingRuleError with the submitted list.
C12_NoRulesNoResult ==
    (probe.op = "backward" /\ probe.target # NoTarget /\ TargetRules = {}) =>
        /\ probe.outcome.kind # "ok"
        /\ probe.outcome.result = NoResult
        /\ probe.fault # "DatabaseError" =>
              /\ probe.outcome.kind = "NoMatchingRuleError"
              /\ probe.outcome.ids = probe.symptoms

\* C12 witness: rules exist for other diseases, the target is not a stored
\* disease and symptoms of those rules are reported
C12_Witness ==
    /\ probe.op = "backward"
    /\ probe.target = AbsentDiseaseId
    /\ Len(rules) >= 1
    /\ \E i \in 1..Len(rules) : rules[i].if_symptoms \cap SeqToSet(probe.symptoms) # {}
    /\ probe.fault = "none"
    /\ probe.outcome.kind = "NoMatchingRuleError"

\* the names of a set of stored symptoms
NamesOf(ids) == {SymptomName(i) : i \in ids}

\* a list of names holds exactly the names of ids, each once
ListsNamesOf(names, ids) == SeqToSet(names) = NamesOf(ids) /\ Len(names) = Cardinality(ids)

\* C13: a backward result holds one evaluation record for every rule that
\* concludes the target, in evaluation order, and none for another disease's
\* rule, whatever the score; in each record matched = reported /\ required,
\* missing = required \ reported, satisfaction = |matched| / |required| (0
\* for a rule without symptoms) rounded to 4 decimals, and is_fully_satisfied
\* holds exactly when missing is empty.  Scenario D: {Fever, Cough} against
\* the seeded rule gives 0.6667, missing Fatigue, not fully satisfied.
C13_EvaluationRecords ==
    BwdReturned =>
        LET ev == probe.outcome.result.rules_evaluated
            reported == SeqToSet(probe.symptoms)
        IN /\ Len(ev) = Cardinality(TargetRules)
           /\ \A k \in 1..(Len(ev) - 1) : ev[k].rule_id < ev[k + 1].rule_id
           /\ \A k \in 1..Len(ev) :
                 LET r == ev[k]
                     required == rules[r.rule_id].if_symptoms
                 IN /\ r.rule_id \in TargetRules
                    /\ ListsNamesOf(r.required_symptoms, required)
                    /\ ListsNamesOf(r.matched_symptoms, reported \cap required)
                    /\ ListsNamesOf(r.missing_symptoms, required \ reported)
                    /\ SeqToSet(r.matched_symptoms) \cap SeqToSet(r.missing_symptoms) = {}
                    /\ SeqToSet(r.matched_symptoms) \cup SeqToSet(r.missing_symptoms)
                          = SeqToSet(r.required_symptoms)
                    /\ r.satisfaction_score =
                          (IF required = {} THEN 0
                           ELSE ExactRound(10000 * Cardinality(reported \cap required),
                                           Cardinality(required)))
                    /\ r.is_fully_satisfied <=> (r.missing_symptoms = << >>)
           /\ (rules = SeedRules /\ reported = {1, 2}) =>
                 /\ ev[1].satisfaction_score = 6667
                 /\ ev[1].missing_symptoms = <<"Fatigue">>
                 /\ ~ev[1].is_fully_satisfied

\* C13 witness: scenario D
C13_Witness ==
    /\ BwdReturned
    /\ rules = SeedRules
    /\ probe.symptoms = <<1, 2>>
    /\ probe.target = 1
    /\ probe.outcome.result.rules_evaluated[1].satisfaction_score = 6667

\* C14: in a backward result the fired-rules list holds exactly the evaluated
\* rules whose satisfaction is greater than 0, in evaluation order and with
\* the same score; a rule with no matched symptom is evaluated, not fired.
C14_FiredIffSatisfied ==
    BwdReturned =>
        LET ev == probe.outcome.result.rules_evaluated
            positive == SelectSeq(ev, LAMBDA r : r.satisfaction_score > 0)
            fired == probe.outcome.result.rules_fired
        IN /\ Len(fired) = Len(positive)
           /\ \A k \in 1..Len(fired) :
                 /\ fired[k].rule_id = positive[k].rule_id
                 /\ fired[k].satisfaction_score = positive[k].satisfaction_score
                 /\ positive[k].matched_symptoms # << >>
           /\ \A k \in 1..Len(ev) :
                 ev[k].matched_symptoms = << >> =>
                    \A j \in 1..Len(fired) : fired[j].rule_id # ev[k].rule_id

\* C14 witness: the target's first rule has symptoms but none reported, its
\* second rule fires
C14_Witness ==
    /\ BwdReturned
    /\ Len(probe.outcome.result.rules_evaluated) = 2
    /\ probe.outcome.result.rules_evaluated[1].required_symptoms # << >>
    /\ probe.outcome.result.rules_evaluated[1].matched_symptoms = << >>
    /\ Len(probe.outcome.result.rules_fired) = 1
    /\ probe.outcome.result.rules_fired[1].rule_id = 2

\* C15: in a backward result best_satisfaction_score is the maximum
\* satisfaction score over the evaluated rules, and overall_missing_symptoms
\* lists, each once, exactly the symptoms missing from some evaluated rule.
C15_BestAndMissing ==
    BwdReturned =>
        LET res == probe.outcome.result
            ev == res.rules_evaluated
        IN /\ Len(ev) >= 1
           /\ res.best_satisfaction_score =
                 MaxOf({ev[k].satisfaction_score : k \in 1..Len(ev)})
           /\ SeqToSet(res.overall_missing_symptoms) =
                 UNION {SeqToSet(ev[k].missing_symptoms) : k \in 1..Len(ev)}
           /\ Len(res.overall_missing_symptoms) =
                 Cardinality(SeqToSet(res.overall_missing_symptoms))
           /\ SeqToSet(res.overall_missing_symptoms) =
                 NamesOf(UNION {rules[i].if_symptoms : i \in TargetRules}
                           \ SeqToSet(probe.symptoms))

\* C15 witness: two rules of the target, the better score on the first, both
\* missing the same symptom
C15_Witness ==
    /\ BwdReturned
    /\ Len(probe.outcome.result.rules_evaluated) = 2
    /\ probe.outcome.result.rules_evaluated[1].satisfaction_score
          > probe.outcome.result.rules_evaluated[2].satisfaction_score
    /\ probe.outcome.result.rules_evaluated[1].missing_symptoms # << >>
    /\ probe.outcome.result.rules_evaluated[1].missing_symptoms
          = probe.outcome.result.rules_evaluated[2].missing_symptoms
    /\ Len(probe.outcome.result.overall_missing_symptoms) = 1

C20_InFlightKeepsStrategy ==
    call.inferred => call.ran_with = call.started_with

(***************************************************************************)
(* Properties of DiagnosisService.get_explanation, checked under           *)
(* SpecExplain.                                                            *)
(***************************************************************************)
\* the traces of a stored case
TracesOf(case_id) == {t \in 1..Len(traces) : traces[t].patient_case = case_id}

\* get_explanation has just returned for a stored case whose only trace is
\* the one a diagnose call wrote with the given tag
ExplainedDiagnosed(tag) ==
    /\ probe.op = "explain"
    /\ probe.case_id \in 1..Len(cases)
    /\ TracesOf(probe.case_id) = {probe.trace_id}
    /\ traces[probe.trace_id].strategy_used = tag
    /\ traces[probe.trace_id].rules_fired # << >>

\* C17: for a case persisted by a successful forward-chaining diagnose call
\* that ranked at least one disease, get_explanation on a service holding
\* the forward strategy returns the formatted text (the header followed by
\* the report whose lines give each ranked disease with its percentage)
\* rather than raising.
C17_ForwardCaseExplained ==
    (/\ ExplainedDiagnosed("FORWARD_CHAINING")
     /\ probe.strategy = "FORWARD"
     /\ cases[probe.case_id].inferred_results # << >>)
    => /\ probe.outcome.kind = "ok"
       /\ probe.outcome.result.header = Header(cases[probe.case_id], traces[probe.trace_id])
       /\ probe.outcome.result.body.title = "=== forward chaining diagnosis report ==="

\* the strategy the service is not holding
OtherStrategy(strat) == IF strat = "FORWARD" THEN "BACKWARD" ELSE "FORWARD"

\* two outcomes of get_explanation end the same way and, when both return,
\* carry the same body
SameBody(o1, o2) ==
    /\ o1.kind = o2.kind
    /\ o1.kind = "ok" => /\ o1.result.body.title = o2.result.body.title
                         /\ o1.result.body.lines = o2.result.body.lines

\* C18: the body get_explanation returns for a stored case with a trace does
\* not depend on the strategy the service holds: the call that has just
\* returned ends as the same call on a service holding the other strategy
\* would, with the same body.
C18_BodyIndependentOfConfigured ==
    (/\ probe.op = "explain"
     /\ probe.case_id \in 1..Len(cases)
     /\ probe.trace_id # 0)
    => SameBody(probe.outcome,
                Explanation(cases, traces, OtherStrategy(probe.strategy), probe.case_id))

\* trace t of a stored case carries the most recent timestamp of its traces
MostRecent(case_id, t) ==
    /\ t \in TracesOf(case_id)
    /\ \A u \in TracesOf(case_id) \ {t} :
          Earlier(traces[u].execution_timestamp, traces[t].execution_timestamp)

\* the outcome o of get_explanation is built from trace t of the case: the
\* report explain_result makes of the case's results and that trace's tag,
\* rules and time, under a header naming that trace's strategy, or the
\* exception explain_result raised on it
BuiltFrom(o, strat, case, t) ==
    /\ o = WithHeader(Header(case, traces[t]),
                      ExplainResult(strat, Reconstructed(case, traces[t])))
    /\ o.kind = "ok" =>
          /\ o.result.header.strategy = StrategyDisplay(traces[t].strategy_used)
          /\ \E k \in 1..Len(o.result.body.lines) :
                /\ o.result.body.lines[k].label = "execution time"
                /\ o.result.body.lines[k].num = traces[t].execution_time_ms

\* C19: a call of get_explanation(case_id) raises the case-level not-found
\* error when no case has that id, the trace-level not-found error when the
\* case has no trace, and otherwise works from the trace of that case with
\* the most recent timestamp; in all three outcomes every stored case and
\* trace is left as it was.
C19_ExplainOutcomes ==
    [][probe'.op = "explain" =>
         /\ cases' = cases
         /\ traces' = traces
         /\ probe'.case_id \notin 1..Len(cases) =>
               probe'.outcome = CaseNotFound(probe'.case_id)
         /\ (probe'.case_id \in 1..Len(cases) /\ TracesOf(probe'.case_id) = {}) =>
               probe'.outcome = TraceNotFound(probe'.case_id)
         /\ (probe'.case_id \in 1..Len(cases) /\ TracesOf(probe'.case_id) # {}) =>
               /\ MostRecent(probe'.case_id, probe'.trace_id)
               /\ BuiltFrom(probe'.outcome, strategy, cases[probe'.case_id],
                            probe'.trace_id)]_vars

\* get_explanation has returned the report of a case that has a trace
\* written by diagnose and a later one added by hand under the other tag
C19_Witness ==
    /\ probe.op = "explain"
    /\ probe.case_id \in 1..Len(cases)
    /\ probe.outcome.kind = "ok"
    /\ \E t \in TracesOf(probe.case_id) :
          /\ t < probe.trace_id
          /\ traces[t].strategy_used # traces[probe.trace_id].strategy_used
          /\ traces[t].execution_time_ms # traces[probe.trace_id].execution_time_ms

(***************************************************************************)
(* Properties of KnowledgeBaseRepository.get_all_symptoms, checked under   *)
(* SpecCache.                                                              *)
(***************************************************************************)
\* the entry under the key exists and has not expired
Unexpired == cache.present /\ clock < cache.expires

\* the contents of the SymptomModel table now
CurrentContents == epochs[Len(epochs)].value

\* thread p takes a step of get_all_symptoms from pc to a different state
ReaderStep(p, pc) == readers[p].pc = pc /\ readers'[p] # readers[p]

\* C21: get_all_symptoms reads through the single key: with an unexpired
\* entry (an empty list included) the call returns the entry's list without
\* loading from storage and leaves the cache as it is; with no entry it
\* loads the full list from storage, stores it under the key to expire 300
\* seconds later and returns it.
C21_ReadThrough ==
    [][\A p \in Threads :
         /\ (ReaderStep(p, "idle") /\ Unexpired) =>
               /\ readers'[p].pc = "returned"
               /\ readers'[p].result = cache.value
               /\ readers'[p].qs = << >>
               /\ cache' = cache
         /\ (ReaderStep(p, "idle") /\ ~cache.present) =>
               /\ readers'[p].pc = "miss"
               /\ ~cache'.present
         /\ ReaderStep(p, "miss") =>
               /\ readers'[p].pc = "loaded"
               /\ readers'[p].qs = CurrentContents
               /\ cache' = cache
         /\ ReaderStep(p, "loaded") =>
               /\ readers'[p].pc = "returned"
               /\ readers'[p].result = readers[p].qs
               /\ cache' = [present |-> TRUE, value |-> readers[p].qs,
                            expires |-> clock + 300]]_vars

\* a call was served the cached list of an empty table
C21_Witness ==
    \E p \in Threads :
        /\ readers[p].pc = "returned"
        /\ readers[p].hit
        /\ readers[p].result = << >>
        /\ CurrentContents = << >>

\* the table held the list at some instant from time t on
HeldSince(list, t) ==
    \E k \in 1..Len(epochs) :
        /\ epochs[k].value = list
        /\ k < Len(epochs) => epochs[k + 1].since >= t

HeldBefore(list, t) ==
    \E k \in 1..Len(epochs) : epochs[k].value = list /\ epochs[k].since <= t

\* the time at which the entry was stored
StoredAt(entry) == entry.expires - SYMPTOM_CACHE_TTL

Snapshot(list) == \E k \in 1..Len(epochs) : epochs[k].value = list

\* C23: the cache entry is at every instant absent or one complete snapshot
\* of the table, the one loaded by the single call that stored it (the last
\* to store wins), and every list a call returns is such a snapshot.
C23_WholeSnapshots ==
    /\ [](cache.present => Snapshot(cache.value))
    /\ [](\A p \in Threads : readers[p].pc = "returned" => Snapshot(readers[p].result))
    /\ [][(cache' # cache /\ cache'.present) =>
            \E p \in Threads : /\ ReaderStep(p, "loaded")
                                /\ cache'.value = readers[p].qs]_vars

\* two calls missed together, loaded different contents and both stored:
\* the entry is the list of one of them
C23_Witness ==
    /\ \A p \in Threads : readers[p].pc = "returned" /\ ~readers[p].hit
    /\ readers[1].result # readers[2].result
    /\ cache.present
    /\ cache.value \in {readers[1].result, readers[2].result}

(***************************************************************************)
(* Properties of the stored cases under edits of the SymptomModel table,   *)
(* checked under SpecEdits.                                                *)
(***************************************************************************)
\* the id and name of each distinct submitted symptom the table holds
SubmittedPairs(symptom_ids) ==
    {[id |-> i, name |-> symptom_rows[i].name] : i \in SeqToSet(symptom_ids) \cap StoredIds}

\* the entries of a snapshot
SnapshotPairs(snapshot) == {snapshot[k] : k \in 1..Len(snapshot)}

C25_NoMatchCarriesTarget ==
    (probe.op = "backward" /\ probe.outcome.kind = "NoMatchingRuleError") =>
        /\ \E k \in 1..Len(ErrorFields(probe.outcome)) :
              /\ ErrorFields(probe.outcome)[k].name = "symptom_ids"
              /\ ErrorFields(probe.outcome)[k].ids = probe.symptoms
        /\ \E k \in 1..Len(ErrorFields(probe.outcome)) :
              /\ ErrorFields(probe.outcome)[k].name # "symptom_ids"
              /\ ErrorFields(probe.outcome)[k].ids = <<probe.target>>

\* the report lines of the evaluated rules in the explanation of a result
ScoreLines(result) ==
    SelectSeq(BackwardExplain(result).result.lines, LAMBDA line : line.label = "score")

\* C28: in every evaluation record of backward chaining is_fully_satisfied
\* is true exactly when satisfaction_score is 1, so the explanation shows
\* 100.0% for every rule it labels SATISFIED and less for every rule it
\* labels PARTIAL.
C28_SatisfiedIffFullScore ==
    BwdReturned =>
        /\ \A k \in 1..Len(probe.outcome.result.rules_evaluated) :
              probe.outcome.result.rules_evaluated[k].is_fully_satisfied
                <=> probe.outcome.result.rules_evaluated[k].satisfaction_score = 10000
        /\ \A k \in 1..Len(ScoreLines(probe.outcome.result)) :
              /\ ScoreLines(probe.outcome.result)[k].text = "SATISFIED" =>
                    ScoreLines(probe.outcome.result)[k].num = 1000
              /\ ScoreLines(probe.outcome.result)[k].text = "PARTIAL" =>
                    ScoreLines(probe.outcome.result)[k].num < 1000

\* the rules whose required symptom set is empty
EmptyRules == {i \in 1..Len(rules) : rules[i].if_symptoms = {}}

\* C30: forward chaining over a table that holds a rule with no required
\* symptom does not fail because of that rule: unless a query fails or a
\* template is malformed, it returns a result whenever a reported symptom is
\* required by some rule and raises NoMatchingRuleError otherwise; the rule
\* never fires and total_rules_evaluated is the number of rules in the table.
C30_EmptyRuleSkipped ==
    (probe.op = "forward" /\ probe.fault = "none" /\ EmptyRules # {}) =>
        /\ probe.outcome.kind =
              (IF \E i \in 1..Len(rules) :
                     rules[i].if_symptoms \cap SeqToSet(probe.symptoms) # {}
               THEN "ok" ELSE "NoMatchingRuleError")
        /\ probe.outcome.kind = "ok" =>
              /\ \A k \in 1..Len(probe.outcome.result.rules_fired) :
                    probe.outcome.result.rules_fired[k].rule_id \notin EmptyRules
              /\ probe.outcome.result.total_rules_evaluated = Len(rules)

\* forward chaining returned a result over a table whose first rule has no
\* required symptom
C30_Witness ==
    /\ probe.op = "forward"
    /\ probe.outcome.kind = "ok"
    /\ Len(rules) = 2
    /\ 1 \in EmptyRules
    /\ probe.outcome.result.total_rules_evaluated = 2

(***************************************************************************)
(* A further property of DiagnosisService.diagnose, checked under Spec.    *)
(***************************************************************************)
\* C29: a diagnose call that reaches the backward strategy without a target
\* disease id, its symptoms having passed validation, ends with the
\* generic InferenceEngineError carrying the text of the missing-target
\* ValueError, whether or not the database answers queries (no rule is
\* fetched), and stores no case and no trace; a call whose symptom list is
\* invalid ends with InvalidSymptomError instead, whatever the strategy and
\* the target.
C29_MissingTargetWrapped ==
    [][/\ (call.pc = "infer" /\ call' # call /\ strategy = "BACKWARD"
           /\ call.target = NoTarget) =>
             /\ call.validated.all_exist
             /\ call'.pc = "done"
             /\ call'.raised = RawError("ValueError", ValueErrorText)
             /\ call'.outcome = InferenceEngineError(ValueErrorText)
             /\ call'.case_id = 0
             /\ cases' = cases
             /\ traces' = traces
       /\ (nCalls' = nCalls + 1 /\ call'.validated.answered
           /\ HasAbsentId(call'.symptoms)) =>
             /\ call'.pc = "done"
             /\ call'.outcome.kind = "InvalidSymptomError"]_vars

\* a call with stored symptoms and no target ended that way on a service
\* holding the backward strategy
C29_Witness ==
    /\ call.pc = "done"
    /\ call.ran_with = "BACKWARD"
    /\ call.target = NoTarget
    /\ call.symptoms # << >>
    /\ call.outcome = InferenceEngineError(ValueErrorText)
    /\ cases = << >>

(***************************************************************************)
(* Properties of concurrent diagnose calls, checked under SpecConcurrent.  *)
(***************************************************************************)
\* the call has returned a result
Succeeded(c) == c.pc = "done" /\ c.outcome.kind = "ok"

\* the result's case_id names a stored case written for the call's patient,
\* and a trace with the call's inference time is linked to that case
OwnCaseAttached(c) ==
    /\ c.outcome.result.case_id \in 1..Len(cases)
    /\ cases[c.outcome.result.case_id].patient_identifier = c.patient_id
    /\ \E t \in 1..Len(traces) :
          /\ traces[t].patient_case = c.outcome.result.case_id
          /\ traces[t].execution_time_ms = c.outcome.result.execution_time_ms

\* the trace is linked to a case of the thread whose call wrote it
LinkedToOwnCase(t) ==
    /\ traces[t].patient_case \in 1..Len(cases)
    /\ traces[t].execution_time_ms \in ElapsedValues =>
          cases[traces[t].patient_case].patient_identifier \in PatientIds
    /\ traces[t].execution_time_ms \in OtherElapsedValues =>
          cases[traces[t].patient_case].patient_identifier \in OtherPatientIds

\* C26: the case_id in the result of a successful diagnose call is the id of
\* the case that call created, and the trace that call created is linked to
\* that case; however two threads' calls interleave, two successful calls
\* get different case ids and no trace is linked to a case another thread's
\* call created.
C26_OwnCaseAndTrace ==
    /\ Succeeded(call) => OwnCaseAttached(call)
    /\ Succeeded(other) => OwnCaseAttached(other)
    /\ (Succeeded(call) /\ Succeeded(other)) =>
          call.outcome.result.case_id # other.outcome.result.case_id
    /\ \A t \in 1..Len(traces) : LinkedToOwnCase(t)

\* both threads' calls succeeded, the first thread having created its case
\* before and its trace after the second thread's
C26_Witness ==
    /\ Succeeded(call)
    /\ Succeeded(other)
    /\ call.case_id < other.case_id
    /\ \E t, u \in 1..Len(traces) :
          /\ traces[t].patient_case = call.case_id
          /\ traces[u].patient_case = other.case_id
          /\ u < t

(***************************************************************************)
(* Further properties of DiagnosisService.diagnose, checked under Spec.    *)
(***************************************************************************)
\* the rules that conclude the call's target disease
CallTargetRules == {i \in 1..Len(rules) : rules[i].then_disease = call.target}

\* the call ran backward chaining towards a disease that has a rule, no
\* reported symptom is required by any rule of that disease, and no query or
\* write of the call failed
BackwardWithoutMatch ==
    /\ call.pc = "done"
    /\ call.ran_with = "BACKWARD"
    /\ call.target # NoTarget
    /\ CallTargetRules # {}
    /\ \A i \in CallTargetRules : rules[i].if_symptoms \cap SeqToSet(call.symptoms) = {}
    /\ call.raised.text # DbErrorText

\* C27: backward chaining towards a disease that has a rule succeeds even
\* when no reported symptom matches any of its rules: the result has best
\* satisfaction score 0 and no fired rule, and diagnose stores a case with
\* an empty ranked disease list and a trace tagged BACKWARD_CHAINING with an
\* empty confidence map.
C27_BackwardSucceedsWithoutMatch ==
    BackwardWithoutMatch =>
        /\ call.outcome.kind = "ok"
        /\ call.outcome.result.best_satisfaction_score = 0
        /\ call.outcome.result.rules_fired = << >>
        /\ call.outcome.result.case_id \in 1..Len(cases)
        /\ cases[call.outcome.result.case_id].inferred_results = << >>
        /\ \E t \in 1..Len(traces) :
              /\ traces[t].patient_case = call.outcome.result.case_id
              /\ DOMAIN traces[t].confidence_scores_calculated = {}
              /\ traces[t].strategy_used = "BACKWARD_CHAINING"

\* such a call with a reported symptom that the target's rules do not require
C27_Witness ==
    /\ BackwardWithoutMatch
    /\ call.symptoms # << >>
    /\ call.outcome.kind = "ok"
    /\ Len(rules) = 2
====
